---- MODULE Spec2Model ----
(***************************************************************************)
(* SANE (Smart AI Note Evolution): the processing scheduler and the        *)
(* enhancement pipeline of src/main.ts (class SANEPlugin, the version      *)
(* starting at line 697), with the provider gate of src/ai-service.ts.     *)
(*                                                                         *)
(* JavaScript runs the plugin on one thread: a step of this model is the   *)
(* code that runs between two awaits.  Every asynchronous invocation       *)
(* (a change handler, a queue flush, a command) is a task whose pc names   *)
(* the await it is suspended on; timers and settings saves in flight are   *)
(* part of the state.                                                      *)
(***************************************************************************)
EXTENDS Integers, Sequences, FiniteSets, TLC

\* ------------------------------------------------------------- bounds ----
MaxTasks == 1      \* asynchronous invocations in flight at once
MaxBurst == 3      \* change events counted in one debounce window
MaxDay == 1        \* calendar days the clock runs through (0..MaxDay)
MaxBudget == 1     \* daily budgets 1..MaxBudget, in cost units
MaxCost == 1       \* estimated cost of one enhancement, 1..MaxCost units
MaxSaves == 1      \* saveSettings calls suspended on saveData at once
MaxTimers == 2     \* outstanding timers of one kind the host can hold
MaxEvents == 3     \* user actions (edits, deletions, commands, settings) in a run
MaxDim == 2        \* components of a vector, 0..MaxDim
MaxK == 3          \* neighbour counts asked of the ranking, 0..MaxK
MaxElements == 2   \* tags written into a response, 0..MaxElements
MaxLinks == 1      \* links written into a response, 0..MaxLinks
MaxStored == 2     \* entries of a store that is saved, 0..MaxStored
MaxFlushes == 2    \* invocations in flight at once where flushes can overlap
FewestEmbedded == 7 \* smallest store the initialization heuristic starts from
MaxLogged == 3     \* entries of a cost log a cost is recorded into, 0..MaxLogged
TicksPerHour == 2  \* instants of an hour the clock is read at
MaxCharge == 2     \* estimated cost of one enhancement where invocations overlap

\* -------------------------------------------------- program constants ----
InitializationThreshold == 10
RetentionDays == 30
RelevantNotesCount == 3
ProgressEvery == 10
HoursPerDay == 24

Paths == {"A", "B", "C"}
NoPath == "none"
\* the order in which vault.getMarkdownFiles lists the files
FileOrder == <<"A", "B", "C">>
Triggers == {"immediate", "delayed", "scheduled", "manual"}
EmbedResults == {<<>>, <<1, 0>>}
\* what loadLocalStorage('sane-embeddings') can return at startup
PersistedStores ==
    {<<>>, <<[path |-> "A", embedding |-> <<1, 0>>],
             [path |-> "B", embedding |-> <<1, 0>>]>>}

VARIABLES
    loaded,                    \* "constructed" | "loaded" | "unloaded"
    settings,                  \* this.settings (shared with the provider)
    saves,                     \* saveSettings calls awaiting saveData
    vault,                     \* paths of the markdown files that exist
    sane,                      \* sane[p]: p's front-matter carries sane_* keys
    noteEmbeddings,            \* Map path -> embedding, in insertion order
    processingQueue,           \* Set of paths, in insertion order
    delayedProcessingTimer,    \* handle: "undefined" | "live" | "dead"
    delayedTimers,             \* debounce timers outstanding in the host
    scheduledProcessingTimer,  \* handle: "undefined" | "live" | "dead"
    scheduledTimers,           \* scheduled timers outstanding in the host
    costEntries,               \* sequence of [day, cost]
    today,                     \* the calendar day of the clock
    tasks,                     \* tasks[s]: the invocation in slot s
    notices,                   \* Notices shown by the last step
    events,                    \* user actions so far
    burst,                     \* history: the current debounce window
    call                       \* the function applied last, its arguments
                               \* and what it returned

vars == <<loaded, settings, saves, vault, sane, noteEmbeddings,
          processingQueue, delayedProcessingTimer, delayedTimers,
          scheduledProcessingTimer, scheduledTimers, costEntries, today,
          tasks, notices, events, burst, call>>

\* the slots of the invocations in flight
Slots == DOMAIN tasks

\* ------------------------------------------------------------ helpers ----
Min(a, b) == IF a < b THEN a ELSE b

Range(s) == {s[i] : i \in 1..Len(s)}

RECURSIVE Count(_, _)
Count(x, s) == IF s = <<>> THEN 0
               ELSE (IF Head(s) = x THEN 1 ELSE 0) + Count(x, Tail(s))

\* mutant: the queue kept as an array, every change appended
SetAdd_Duplicating(q, p) == Append(q, p)

\* Set.add: a path already in the set keeps its place
SetAdd(q, p) == IF p \in Range(q) THEN q ELSE Append(q, p)

\* Map.has / Map.set / Map.delete on the insertion-ordered store
MapHas(store, p) == \E i \in 1..Len(store) : store[i].path = p

\* mutant: every set appends an entry
MapSet_Appending(store, p, e) ==
    Append(store, [path |-> p, embedding |-> e])

MapSet(store, p, e) ==
    IF MapHas(store, p)
    THEN [i \in 1..Len(store) |->
            IF store[i].path = p THEN [path |-> p, embedding |-> e]
            ELSE store[i]]
    ELSE Append(store, [path |-> p, embedding |-> e])

MapDelete(store, p) == SelectSeq(store, LAMBDA x : x.path # p)

MapGet(store, p) ==
    store[CHOOSE i \in 1..Len(store) : store[i].path = p].embedding

\* ------------------------------------------------------------ ranking ----
\* The similarity is computed in the arithmetic of the JavaScript number:
\* every operation is rounded to nearest, ties to even.  A number is the
\* pair (m, e), the value m * 2^e, with m = 0 or 2^(p-1) <= |m| < 2^p.  The
\* significand has SignificandBits bits in place of binary64's 53; on the
\* vectors of Vectors the similarities so computed are ordered, and are equal
\* to 0, 1 and -1, exactly as the binary64 ones are.  The exponent is not
\* bounded: no overflow or underflow arises from the components of Vectors.
SignificandBits == 7

Pow2(n) == 2 ^ n

Abs(n) == IF n < 0 THEN 0 - n ELSE n
Sign(n) == IF n < 0 THEN 0 - 1 ELSE IF n = 0 THEN 0 ELSE 1

FloatZero == [m |-> 0, e |-> 0]

\* num / den * 2^e, num > 0, rounded to the significand
RECURSIVE RoundRatio(_, _, _)
RoundRatio(num, den, e) ==
    IF num >= den * Pow2(SignificandBits) THEN RoundRatio(num, 2 * den, e + 1)
    ELSE IF num < den * Pow2(SignificandBits - 1)
    THEN RoundRatio(2 * num, den, e - 1)
    ELSE LET q == num \div den
             r == num % den
             m == IF 2 * r > den \/ (2 * r = den /\ q % 2 = 1)
                  THEN q + 1 ELSE q
         IN  IF m = Pow2(SignificandBits)
             THEN [m |-> Pow2(SignificandBits - 1), e |-> e + 1]
             ELSE [m |-> m, e |-> e]

FloatOf(sign, num, den, e) ==
    IF num = 0 THEN FloatZero
    ELSE LET r == RoundRatio(num, den, e) IN [m |-> sign * r.m, e |-> r.e]

FromInt(n) == FloatOf(Sign(n), Abs(n), 1, 0)

FMul(x, y) == FloatOf(Sign(x.m) * Sign(y.m), Abs(x.m) * Abs(y.m), 1, x.e + y.e)

FAdd(x, y) ==
    IF x.m = 0 THEN y
    ELSE IF y.m = 0 THEN x
    ELSE LET e == Min(x.e, y.e)
             n == x.m * Pow2(x.e - e) + y.m * Pow2(y.e - e)
         IN  FloatOf(Sign(n), Abs(n), 1, e)

FDiv(x, y) == FloatOf(Sign(x.m) * Sign(y.m), Abs(x.m), Abs(y.m), x.e - y.e)

RECURSIVE Isqrt(_)
Isqrt(n) == IF n < 2 THEN n
            ELSE LET s == 2 * Isqrt(n \div 4)
                 IN  IF (s + 1) * (s + 1) <= n THEN s + 1 ELSE s

\* Math.sqrt of x > 0: the root of an inexact square lies strictly between
\* s and s + 1, and is rounded as s + 1/2 is
FSqrt(x) ==
    LET odd == x.e % 2 # 0
        m2 == IF odd THEN 2 * x.m ELSE x.m
        e2 == IF odd THEN x.e - 1 ELSE x.e
        n == m2 * Pow2(2 * SignificandBits)
        s == Isqrt(n)
    IN  FloatOf(1, IF s * s = n THEN 2 * s ELSE 2 * s + 1, 2,
                (e2 \div 2) - SignificandBits)

\* x < y
FLess(x, y) ==
    LET e == Min(x.e, y.e)
    IN  x.m * Pow2(x.e - e) < y.m * Pow2(y.e - e)

\* the loop of cosineSimilarity: sum of a[i] * b[i], accumulated in order
RECURSIVE Dot(_, _)
Dot(a, b) ==
    IF a = <<>> THEN FloatZero
    ELSE LET n == Len(a)
         IN  FAdd(Dot(SubSeq(a, 1, n - 1), SubSeq(b, 1, n - 1)),
                  FMul(FromInt(a[n]), FromInt(b[n])))


\* mutant: the length check and the zero-norm check dropped
cosineSimilarity_Unguarded(a, b) ==
    LET n == Min(Len(a), Len(b))
        dotProduct == Dot(SubSeq(a, 1, n), SubSeq(b, 1, n))
        normA == Dot(a, a)
        normB == Dot(b, b)
    IN  IF normA.m = 0 \/ normB.m = 0 THEN FromInt(1)
        ELSE FDiv(dotProduct, FMul(FSqrt(normA), FSqrt(normB)))

cosineSimilarity(a, b) ==
    IF Len(a) # Len(b) THEN FloatZero
    ELSE LET dotProduct == Dot(a, b)
             normA == Dot(a, a)
             normB == Dot(b, b)
         IN  IF normA.m = 0 \/ normB.m = 0 THEN FloatZero
             ELSE FDiv(dotProduct, FMul(FSqrt(normA), FSqrt(normB)))

\* x < y for similarities
SimLess(x, y) == FLess(x, y)

\* mutant: the similarities left in the order of the store
InsertDesc_Unsorted(sorted, x) == Append(sorted, x)

\* Array.prototype.sort with (a, b) => b.similarity - a.similarity: stable,
\* descending; an element goes after every element that is not smaller
RECURSIVE InsertDesc(_, _)
InsertDesc(sorted, x) ==
    IF sorted = <<>> THEN <<x>>
    ELSE IF SimLess(Head(sorted).similarity, x.similarity)
         THEN <<x>> \o sorted
         ELSE <<Head(sorted)>> \o InsertDesc(Tail(sorted), x)

RECURSIVE SortDesc(_)
SortDesc(s) == IF s = <<>> THEN <<>>
               ELSE InsertDesc(SortDesc(SubSeq(s, 1, Len(s) - 1)), s[Len(s)])

\* mutant: the slice taken before the sort
findRelevantNotes_SliceFirst(store, files, excludePath, count) ==
    IF ~MapHas(store, excludePath) THEN <<>>
    ELSE LET current == MapGet(store, excludePath)
             others == SelectSeq(store,
                          LAMBDA x : x.path # excludePath /\ x.path \in files)
             similarities == [i \in 1..Len(others) |->
                 [file |-> others[i].path,
                  similarity |-> cosineSimilarity(current, others[i].embedding)]]
         IN  SortDesc(SubSeq(similarities, 1, Min(count, Len(similarities))))

\* mutant: the ranking does not look the path up in the vault
findRelevantNotes_NoLookup(store, files, excludePath, count) ==
    IF ~MapHas(store, excludePath) THEN <<>>
    ELSE LET current == MapGet(store, excludePath)
             others == SelectSeq(store, LAMBDA x : x.path # excludePath)
             similarities == [i \in 1..Len(others) |->
                 [file |-> others[i].path,
                  similarity |-> cosineSimilarity(current, others[i].embedding)]]
             ranked == SortDesc(similarities)
         IN  SubSeq(ranked, 1, Min(count, Len(ranked)))

findRelevantNotes(store, files, excludePath, count) ==
    IF ~MapHas(store, excludePath) THEN <<>>
    ELSE LET current == MapGet(store, excludePath)
             others == SelectSeq(store,
                          LAMBDA x : x.path # excludePath /\ x.path \in files)
             similarities == [i \in 1..Len(others) |->
                 [file |-> others[i].path,
                  similarity |-> cosineSimilarity(current, others[i].embedding)]]
             ranked == SortDesc(similarities)
         IN  SubSeq(ranked, 1, Min(count, Len(ranked)))

RelevantPaths(store, files, excludePath, count) ==
    LET r == findRelevantNotes(store, files, excludePath, count)
    IN  [i \in 1..Len(r) |-> r[i].file]

\* mutant: a store of exactly the threshold still counts as initialization
isInitialization_Inclusive(store) == Len(store) <= InitializationThreshold

isInitialization(store) == Len(store) < InitializationThreshold

\* ---------------------------------------------------------- cost ledger ----
RECURSIVE SumCosts(_)
SumCosts(entries) == IF entries = <<>> THEN 0
                     ELSE Head(entries).cost + SumCosts(Tail(entries))

\* mutant: the day filter dropped, every entry of the log counted
canAffordProcessing_AllDays(entries, day, st) ==
    IF ~st.costTracking THEN TRUE
    ELSE SumCosts(entries) < st.dailyBudget

canAffordProcessing(entries, day, st) ==
    IF ~st.costTracking THEN TRUE
    ELSE LET todayCosts ==
                 SumCosts(SelectSeq(entries, LAMBDA e : e.day = day))
         IN  todayCosts < st.dailyBudget

\* mutant: an entry of exactly the retention age is dropped
recordCost_Exclusive(entries, day, operation, cost, provider) ==
    SelectSeq(Append(entries, [day |-> day, operation |-> operation,
                               cost |-> cost, provider |-> provider]),
              LAMBDA e : e.day > day - RetentionDays)

\* an entry's day is its timestamp, time being counted in days
recordCost(entries, day, operation, cost, provider) ==
    SelectSeq(Append(entries, [day |-> day, operation |-> operation,
                               cost |-> cost, provider |-> provider]),
              LAMBDA e : e.day >= day - RetentionDays)

\* ------------------------------------------------------------ provider ----
\* mutant: the gate always open
isConfigured_Always(st) == TRUE

isConfigured(st) == st.openaiApiKey # ""

\* --------------------------------------------------------------- timers ----
\* clearTimeout(handle): an outstanding timer is taken from the host
Cleared(handle, n) ==
    [handle |-> IF handle = "live" THEN "dead" ELSE handle,
     timers |-> IF handle = "live" THEN n - 1 ELSE n]

\* mutant: the pending timer is not cleared before a new one is set
scheduleDelayedProcessing_NoClear(handle, n) ==
    [handle |-> "live", timers |-> n + 1]

scheduleDelayedProcessing(handle, n) ==
    [handle |-> "live", timers |-> Cleared(handle, n).timers + 1]

\* mutant: an hour that is striking now still counts as to come today
timeUntilScheduled_NotStrict(now, st) ==
    LET scheduled == st.scheduleHour * TicksPerHour
    IN  IF scheduled < now THEN scheduled + HoursPerDay * TicksPerHour - now
        ELSE scheduled - now

\* the delay scheduleProcessing arms its timer with; now and scheduled are
\* counted in ticks from the local midnight before now
timeUntilScheduled(now, st) ==
    LET scheduled == st.scheduleHour * TicksPerHour
    IN  IF scheduled <= now THEN scheduled + HoursPerDay * TicksPerHour - now
        ELSE scheduled - now

\* mutant: the pending timer is not cleared before a new one is set
scheduleProcessing_NoClear(handle, n, st) ==
    IF st.processingTrigger = "scheduled"
    THEN [handle |-> "live", timers |-> n + 1]
    ELSE Cleared(handle, n)

scheduleProcessing(handle, n, st) ==
    IF st.processingTrigger = "scheduled"
    THEN [handle |-> "live", timers |-> Cleared(handle, n).timers + 1]
    ELSE Cleared(handle, n)

\* ---------------------------------------------------------------- tasks ----
\* kind: "idle" | "change" (handleNoteChange, immediate) | "flush"
\*       (processQueuedNotes) | "command" (processCurrentNote)
\* pc:   the await the invocation is suspended on:
\*       "loop"     processQueuedNotes, between two files
\*       "read"     processNote, vault.read(file)
\*       "embed"    processNote, generateEmbedding
\*       "uRead"    updateNoteWithAI, vault.read(file)
\*       "uEnhance" updateNoteWithAI, generateEnhancement
\*       "uApply"   applyEnhancement, processFrontMatter
\*       "delay"    performInitializeAllNotes, the delay between two files
\* i is the loop index of performInitializeAllNotes, files its targetFiles;
\* signalled (history) records that a budget-exceeded error was thrown
\* inside the batch.  ranked is relevantNotes, the neighbours that
\* findRelevantNotes returned to processNote, and relevant the part of it the
\* loop has still to update; related is the relatedContent argument of the
\* updateNoteWithAI call in progress; content is the content processNote has
\* read, where the model tells one content of a document from another (0
\* elsewhere).
Task(kind, pc, files, file, relevant, target, self) ==
    [kind |-> kind, pc |-> pc, files |-> files, file |-> file,
     relevant |-> relevant, target |-> target, self |-> self,
     i |-> 0, signalled |-> FALSE, ranked |-> <<>>, related |-> <<>>,
     content |-> 0]

\* t, an invocation continued from tk, keeps tk's batch fields
Carry(tk, t) == [t EXCEPT !.i = tk.i, !.signalled = tk.signalled]

IdleTask == Task("idle", "idle", <<>>, NoPath, <<>>, NoPath, FALSE)

HasFree == \E s \in Slots : tasks[s].kind = "idle"
FreeSlot == CHOOSE s \in Slots :
                /\ tasks[s].kind = "idle"
                /\ \A r \in Slots : tasks[r].kind = "idle" => s <= r

\* processNote has returned to its caller
Returned(tk) ==
    IF tk.kind = "flush" /\ tk.files # <<>>
    THEN Task("flush", "loop", tk.files, NoPath, <<>>, NoPath, FALSE)
    ELSE IF tk.kind = "init"
    THEN Carry(tk, Task("init", "delay", tk.files, NoPath, <<>>, NoPath,
                        FALSE))
    ELSE IdleTask

ReturnNotices(tk) ==
    IF tk.kind = "command" THEN {"processed"}
    ELSE IF tk.kind = "init" /\ tk.i % ProgressEvery = 0 THEN {"progress"}
    ELSE {}

\* processNote up to its first await
processNote(tk, file, st) ==
    IF ~isConfigured(st)
    THEN [task |-> Returned(tk),
          notices |-> {"not configured"} \cup ReturnNotices(tk)]
    ELSE [task |-> Carry(tk, Task(tk.kind, "read", tk.files, file, <<>>,
                                  NoPath, FALSE)),
          notices |-> {}]

\* the catch of processNote
Caught(tk, isBudget) ==
    [task |-> Returned([tk EXCEPT
                 !.signalled = @ \/ (isBudget /\ tk.kind = "init")]),
     notices |-> (IF isBudget THEN {"budget"} ELSE {"error"})
                 \cup ReturnNotices(tk)]

\* the relatedContent of an update: [cleanContent] of the document being
\* processed for a neighbour, relevantNotes.map(r => r.file.path) for the
\* document itself
RelatedContent(tk, self) ==
    IF self THEN [n \in 1..Len(tk.ranked) |-> [path |-> tk.ranked[n]]]
    ELSE <<[content |-> tk.file]>>

\* updateNoteWithAI up to its first await
StartUpdate(tk, target, rest, self) ==
    [Carry(tk, Task(tk.kind, "uRead", tk.files, tk.file, rest, target, self))
        EXCEPT !.ranked = tk.ranked, !.related = RelatedContent(tk, self)]

\* processNote after one updateNoteWithAI has returned
NextUpdate(tk, store) ==
    IF tk.self THEN [task |-> Returned(tk), notices |-> ReturnNotices(tk)]
    ELSE IF tk.relevant # <<>>
    THEN [task |-> StartUpdate(tk, Head(tk.relevant), Tail(tk.relevant), FALSE),
          notices |-> {}]
    ELSE IF isInitialization(store)
    THEN [task |-> StartUpdate(tk, tk.file, <<>>, TRUE), notices |-> {}]
    ELSE [task |-> Returned(tk), notices |-> ReturnNotices(tk)]

\* mutant: the budget check dropped
BudgetDenied_Never(entries, day, st) == FALSE

\* the budget check of updateNoteWithAI
BudgetDenied(entries, day, st) ==
    st.costTracking /\ ~canAffordProcessing(entries, day, st)

\* mutant: the queue is not emptied when it is drained
processQueuedNotes_NoClear(queue) ==
    IF Len(queue) = 0 THEN [queue |-> queue, task |-> IdleTask]
    ELSE [queue |-> queue,
          task |-> Task("flush", "loop", queue, NoPath, <<>>, NoPath, FALSE)]

\* mutant: the queue is emptied and nothing of it is processed
processQueuedNotes_Discarding(queue) == [queue |-> <<>>, task |-> IdleTask]

\* processQueuedNotes up to its loop
processQueuedNotes(queue) ==
    IF Len(queue) = 0 THEN [queue |-> queue, task |-> IdleTask]
    ELSE [queue |-> <<>>,
          task |-> Task("flush", "loop", queue, NoPath, <<>>, NoPath, FALSE)]

\* -------------------------------------------------------------- history ----
NoCall == [fn |-> "none"]

NoBurst == [path |-> NoPath, n |-> 0, flushes |-> 0]

BurstOnChange(p) ==
    IF delayedTimers = 0
    THEN IF scheduledTimers = 0 THEN [path |-> p, n |-> 1, flushes |-> 0]
         ELSE NoBurst
    ELSE IF burst.path = p THEN [burst EXCEPT !.n = Min(@ + 1, MaxBurst)]
    ELSE burst

BurstOnFlush(started) ==
    IF started /\ burst.n > 0 THEN [burst EXCEPT !.flushes = Min(@ + 1, 2)]
    ELSE burst

\* a user action: an edit, a deletion, a command, a settings change, unloading
UserAction == events < MaxEvents /\ events' = events + 1 /\ UNCHANGED call

\* ---------------------------------------------------------------- state ----
DefaultSettings ==
    [processingTrigger |-> "delayed", costTracking |-> TRUE,
     dailyBudget |-> 1, openaiApiKey |-> "", targetFolder |-> <<>>,
     aiProvider |-> "openai", scheduleHour |-> 2,
     enableTags |-> TRUE, enableKeywords |-> TRUE, enableLinks |-> TRUE,
     enableSummary |-> TRUE, enableCreationTimestamp |-> TRUE,
     enableModificationTimestamp |-> TRUE]

Init ==
    /\ loaded = "constructed"
    /\ settings = DefaultSettings
    /\ saves = 0
    /\ vault = Paths
    /\ sane = [p \in Paths |-> FALSE]
    /\ noteEmbeddings = <<>>
    /\ processingQueue = <<>>
    /\ delayedProcessingTimer = "undefined"
    /\ delayedTimers = 0
    /\ scheduledProcessingTimer = "undefined"
    /\ scheduledTimers = 0
    /\ costEntries = <<>>
    /\ today = 0
    /\ tasks = [s \in 1..MaxTasks |-> IdleTask]
    /\ notices = {}
    /\ events = 0
    /\ burst = NoBurst
    /\ call = NoCall

\* everything but the vault and the embedding store as it is after
\* construction
Constructed ==
    /\ loaded = "constructed"
    /\ settings = DefaultSettings
    /\ saves = 0
    /\ sane = [p \in Paths |-> FALSE]
    /\ processingQueue = <<>>
    /\ delayedProcessingTimer = "undefined"
    /\ delayedTimers = 0
    /\ scheduledProcessingTimer = "undefined"
    /\ scheduledTimers = 0
    /\ costEntries = <<>>
    /\ today = 0
    /\ tasks = [s \in 1..MaxTasks |-> IdleTask]
    /\ notices = {}
    /\ events = 0
    /\ burst = NoBurst
    /\ call = NoCall

\* onload: loadSettings merges the saved data over the defaults, the saved
\* embeddings are loaded, then the scheduled timer is armed
Onload ==
    /\ UNCHANGED <<events, call>>
    /\ loaded = "constructed"
    /\ \E trigger \in Triggers, tracking \in BOOLEAN,
          budget \in 1..MaxBudget, key \in {"", "sk"} :
          /\ settings' = [DefaultSettings EXCEPT
                              !.processingTrigger = trigger,
                              !.costTracking = tracking,
                              !.dailyBudget = budget,
                              !.openaiApiKey = key]
          /\ LET t == scheduleProcessing(scheduledProcessingTimer,
                                         scheduledTimers, settings')
             IN  /\ scheduledProcessingTimer' = t.handle
                 /\ scheduledTimers' = t.timers
    /\ \E stored \in PersistedStores : noteEmbeddings' = stored
    /\ loaded' = "loaded"
    /\ notices' = {"loaded"}
    /\ UNCHANGED <<saves, vault, sane, processingQueue,
                   delayedProcessingTimer, delayedTimers, costEntries, today,
                   tasks, burst>>

\* onunload up to its await of saveEmbeddings
Onunload ==
    /\ UserAction
    /\ loaded = "loaded"
    /\ loaded' = "unloaded"
    /\ LET d == Cleared(delayedProcessingTimer, delayedTimers)
           t == Cleared(scheduledProcessingTimer, scheduledTimers)
       IN  /\ delayedProcessingTimer' = d.handle
           /\ delayedTimers' = d.timers
           /\ scheduledProcessingTimer' = t.handle
           /\ scheduledTimers' = t.timers
    /\ notices' = {}
    /\ burst' = NoBurst
    /\ UNCHANGED <<settings, saves, vault, sane, noteEmbeddings,
                   processingQueue, costEntries, today, tasks>>

\* --------------------------------------------------------------- settings ----
SettingsSpace ==
    {[DefaultSettings EXCEPT !.processingTrigger = trigger,
                             !.costTracking = tracking,
                             !.dailyBudget = budget,
                             !.openaiApiKey = key] :
        trigger \in Triggers, tracking \in BOOLEAN,
        budget \in 1..MaxBudget, key \in {"", "sk"}}

Fields == {"processingTrigger", "costTracking", "dailyBudget", "openaiApiKey"}

\* an onChange of the settings tab: one field is assigned, then saveSettings
\* runs up to its await of saveData
SettingChanged ==
    /\ UserAction
    /\ loaded = "loaded"
    /\ saves < MaxSaves
    /\ \E st \in SettingsSpace :
          /\ Cardinality({f \in Fields : st[f] # settings[f]}) = 1
          /\ settings' = st
          /\ burst' = IF st.processingTrigger # settings.processingTrigger
                      THEN NoBurst ELSE burst
    /\ saves' = saves + 1
    /\ notices' = {}
    /\ UNCHANGED <<loaded, vault, sane, noteEmbeddings, processingQueue,
                   delayedProcessingTimer, delayedTimers,
                   scheduledProcessingTimer, scheduledTimers, costEntries,
                   today, tasks>>

\* saveSettings after saveData: updateSettings, then scheduleProcessing
SaveSettingsDone ==
    /\ UNCHANGED <<events, call>>
    /\ saves > 0
    /\ saves' = saves - 1
    /\ LET t == scheduleProcessing(scheduledProcessingTimer, scheduledTimers,
                                   settings)
       IN  /\ t.timers <= MaxTimers
           /\ scheduledProcessingTimer' = t.handle
           /\ scheduledTimers' = t.timers
    /\ notices' = {}
    /\ UNCHANGED <<loaded, settings, vault, sane, noteEmbeddings,
                   processingQueue, delayedProcessingTimer, delayedTimers,
                   costEntries, today, tasks, burst>>

\* ----------------------------------------------------------------- events ----
\* A folder is the sequence of its names from the root of the vault, the root
\* being <<>>, which is also the empty targetFolder setting.  Location[p] is
\* the folder that holds the document p.
Location == [p \in Paths |->
                IF p = "A" THEN <<"F">>
                ELSE IF p = "B" THEN <<>>
                ELSE <<"F", "G">>]

IsPrefix(a, b) == Len(a) <= Len(b) /\ SubSeq(b, 1, Len(a)) = a

\* file.path.startsWith(targetFolder + '/') || file.parent?.path ===
\* targetFolder, for the markdown files the model holds
shouldProcessFile(file, st) ==
    IF st.targetFolder # <<>> THEN IsPrefix(st.targetFolder, Location[file])
    ELSE TRUE

handleNoteChange(file) ==
    /\ processingQueue' = SetAdd(processingQueue, file)
    /\ IF settings.processingTrigger = "immediate"
       THEN LET r == processNote(Task("change", "idle", <<>>, NoPath, <<>>,
                                      NoPath, FALSE), file, settings)
            IN  /\ r.task.kind # "idle" => HasFree
                /\ tasks' = IF r.task.kind = "idle" THEN tasks
                            ELSE [tasks EXCEPT ![FreeSlot] = r.task]
                /\ notices' = r.notices
                /\ UNCHANGED <<delayedProcessingTimer, delayedTimers, burst>>
       ELSE IF settings.processingTrigger = "delayed"
       THEN LET d == scheduleDelayedProcessing(delayedProcessingTimer,
                                               delayedTimers)
            IN  /\ d.timers <= MaxTimers
                /\ delayedProcessingTimer' = d.handle
                /\ delayedTimers' = d.timers
                /\ burst' = BurstOnChange(file)
                /\ notices' = {}
                /\ UNCHANGED tasks
       ELSE /\ notices' = {}
            /\ UNCHANGED <<tasks, delayedProcessingTimer, delayedTimers,
                           burst>>

CreateEvent(p) ==
    /\ UserAction
    /\ loaded = "loaded"
    /\ p \notin vault
    /\ vault' = vault \cup {p}
    /\ IF shouldProcessFile(p, settings) THEN handleNoteChange(p)
       ELSE /\ notices' = {}
            /\ UNCHANGED <<processingQueue, tasks, delayedProcessingTimer,
                           delayedTimers, burst>>
    /\ UNCHANGED <<loaded, settings, saves, sane, noteEmbeddings,
                   scheduledProcessingTimer, scheduledTimers, costEntries,
                   today>>

ModifyEvent(p) ==
    /\ UserAction
    /\ loaded = "loaded"
    /\ p \in vault
    /\ IF shouldProcessFile(p, settings) THEN handleNoteChange(p)
       ELSE /\ notices' = {}
            /\ UNCHANGED <<processingQueue, tasks, delayedProcessingTimer,
                           delayedTimers, burst>>
    /\ UNCHANGED <<loaded, settings, saves, vault, sane, noteEmbeddings,
                   scheduledProcessingTimer, scheduledTimers, costEntries,
                   today>>

DeleteEvent(p) ==
    /\ UserAction
    /\ loaded = "loaded"
    /\ p \in vault
    /\ vault' = vault \ {p}
    /\ sane' = [sane EXCEPT ![p] = FALSE]
    /\ noteEmbeddings' = MapDelete(noteEmbeddings, p)
    /\ burst' = IF burst.path = p /\ delayedTimers > 0 THEN NoBurst ELSE burst
    /\ notices' = {}
    /\ UNCHANGED <<loaded, settings, saves, processingQueue,
                   delayedProcessingTimer, delayedTimers,
                   scheduledProcessingTimer, scheduledTimers, costEntries,
                   today, tasks>>

\* the command and the ribbon icon: processCurrentNote on the active file
ProcessCurrentNote(p) ==
    /\ UserAction
    /\ loaded = "loaded"
    /\ p \in vault
    /\ LET r == IF shouldProcessFile(p, settings)
                THEN processNote(Task("command", "idle", <<>>, NoPath, <<>>,
                                      NoPath, FALSE), p, settings)
                ELSE [task |-> IdleTask, notices |-> {"not in target folder"}]
       IN  /\ r.task.kind # "idle" => HasFree
           /\ tasks' = IF r.task.kind = "idle" THEN tasks
                       ELSE [tasks EXCEPT ![FreeSlot] = r.task]
           /\ notices' = r.notices
    /\ UNCHANGED <<loaded, settings, saves, vault, sane, noteEmbeddings,
                   processingQueue, delayedProcessingTimer, delayedTimers,
                   scheduledProcessingTimer, scheduledTimers, costEntries,
                   today, burst>>

\* the confirmed initialize-all command: performInitializeAllNotes up to
\* the first await of its first processNote
InitializeAllNotes ==
    /\ UserAction
    /\ loaded = "loaded"
    /\ HasFree
    /\ LET targetFiles == SelectSeq(FileOrder,
                              LAMBDA f : f \in vault
                                         /\ shouldProcessFile(f, settings))
           tk == Task("init", "delay", targetFiles, NoPath, <<>>, NoPath,
                      FALSE)
           r == IF targetFiles = <<>>
                THEN [task |-> IdleTask, notices |-> {"complete"}]
                ELSE processNote(tk, targetFiles[1], settings)
       IN  /\ tasks' = [tasks EXCEPT ![FreeSlot] = r.task]
           /\ notices' = {"initializing"} \cup r.notices
    /\ UNCHANGED <<loaded, settings, saves, vault, sane, noteEmbeddings,
                   processingQueue, delayedProcessingTimer, delayedTimers,
                   scheduledProcessingTimer, scheduledTimers, costEntries,
                   today, burst>>

\* ----------------------------------------------------------------- timers ----
\* the callback of the debounce timer: void processQueuedNotes()
DelayedTimerFire ==
    /\ UNCHANGED <<events, call>>
    /\ delayedTimers > 0
    /\ \E fromHandle \in {h \in BOOLEAN :
            IF h THEN delayedProcessingTimer = "live"
            ELSE delayedTimers >
                     (IF delayedProcessingTimer = "live" THEN 1 ELSE 0)} :
          delayedProcessingTimer' =
              IF fromHandle THEN "dead" ELSE delayedProcessingTimer
    /\ delayedTimers' = delayedTimers - 1
    /\ LET f == processQueuedNotes(processingQueue)
       IN  /\ f.task.kind # "idle" => HasFree
           /\ processingQueue' = f.queue
           /\ tasks' = IF f.task.kind = "idle" THEN tasks
                       ELSE [tasks EXCEPT ![FreeSlot] = f.task]
           /\ burst' = BurstOnFlush(f.task.kind # "idle")
    /\ notices' = {}
    /\ UNCHANGED <<loaded, settings, saves, vault, sane, noteEmbeddings,
                   scheduledProcessingTimer, scheduledTimers, costEntries,
                   today>>

\* the callback of the scheduled timer: void processQueuedNotes(), then
\* scheduleProcessing()
ScheduledTimerFire ==
    /\ UNCHANGED <<events, call>>
    /\ scheduledTimers > 0
    /\ \E fromHandle \in {h \in BOOLEAN :
            IF h THEN scheduledProcessingTimer = "live"
            ELSE scheduledTimers >
                     (IF scheduledProcessingTimer = "live" THEN 1 ELSE 0)} :
          LET handle == IF fromHandle THEN "dead"
                        ELSE scheduledProcessingTimer
              t == scheduleProcessing(handle, scheduledTimers - 1, settings)
          IN  /\ scheduledProcessingTimer' = t.handle
              /\ scheduledTimers' = t.timers
    /\ LET f == processQueuedNotes(processingQueue)
       IN  /\ f.task.kind # "idle" => HasFree
           /\ processingQueue' = f.queue
           /\ tasks' = IF f.task.kind = "idle" THEN tasks
                       ELSE [tasks EXCEPT ![FreeSlot] = f.task]
           /\ burst' = BurstOnFlush(f.task.kind # "idle")
    /\ notices' = {}
    /\ UNCHANGED <<loaded, settings, saves, vault, sane, noteEmbeddings,
                   delayedProcessingTimer, delayedTimers, costEntries, today>>

\* local midnight
Tick ==
    /\ UNCHANGED <<events, call>>
    /\ today < MaxDay
    /\ today' = today + 1
    /\ notices' = {}
    /\ UNCHANGED <<loaded, settings, saves, vault, sane, noteEmbeddings,
                   processingQueue, delayedProcessingTimer, delayedTimers,
                   scheduledProcessingTimer, scheduledTimers, costEntries,
                   tasks, burst>>

\* ------------------------------------------------------------- task steps ----
\* processQueuedNotes: the next file of the loop
FlushNext(s) ==
    /\ UNCHANGED <<events, call>>
    /\ tasks[s].pc = "loop"
    /\ LET tk == tasks[s]
           file == Head(tk.files)
           rest == [tk EXCEPT !.files = Tail(tk.files)]
           r == IF file \in vault THEN processNote(rest, file, settings)
                ELSE [task |-> Returned(rest), notices |-> {}]
       IN  /\ tasks' = [tasks EXCEPT ![s] = r.task]
           /\ notices' = r.notices
    /\ UNCHANGED <<loaded, settings, saves, vault, sane, noteEmbeddings,
                   processingQueue, delayedProcessingTimer, delayedTimers,
                   scheduledProcessingTimer, scheduledTimers, costEntries,
                   today, burst>>

\* performInitializeAllNotes: the delay after a file has elapsed; the next
\* file of the loop, or the end of the batch
InitNext(s) ==
    /\ UNCHANGED <<events, call>>
    /\ tasks[s].pc = "delay"
    /\ LET tk == [tasks[s] EXCEPT !.i = @ + 1]
           r == IF tk.i < Len(tk.files)
                THEN processNote(tk, tk.files[tk.i + 1], settings)
                ELSE [task |-> IdleTask, notices |-> {"complete"}]
       IN  /\ tasks' = [tasks EXCEPT ![s] = r.task]
           /\ notices' = r.notices
    /\ UNCHANGED <<loaded, settings, saves, vault, sane, noteEmbeddings,
                   processingQueue, delayedProcessingTimer, delayedTimers,
                   scheduledProcessingTimer, scheduledTimers, costEntries,
                   today, burst>>

\* processNote: vault.read(file) has settled
ReadDone(s) ==
    /\ UNCHANGED <<events, call>>
    /\ tasks[s].pc = "read"
    /\ LET tk == tasks[s]
           r == IF tk.file \in vault
                THEN [task |-> [tk EXCEPT !.pc = "embed"], notices |-> {}]
                ELSE Caught(tk, FALSE)
       IN  /\ tasks' = [tasks EXCEPT ![s] = r.task]
           /\ notices' = r.notices
    /\ UNCHANGED <<loaded, settings, saves, vault, sane, noteEmbeddings,
                   processingQueue, delayedProcessingTimer, delayedTimers,
                   scheduledProcessingTimer, scheduledTimers, costEntries,
                   today, burst>>

\* processNote: generateEmbedding has returned embedding (threw: the provider
\* threw, and the catch of generateEmbedding showed a notice and returned []);
\* the embedding is stored, the neighbours are ranked and the first update is
\* started
EmbedDone(s, embedding, threw) ==
    /\ UNCHANGED <<events, call>>
    /\ tasks[s].pc = "embed"
    /\ threw => Len(embedding) = 0
    /\ LET tk == tasks[s]
           store == MapSet(noteEmbeddings, tk.file, embedding)
           relevant == RelevantPaths(store, vault, tk.file,
                                     RelevantNotesCount)
           r == NextUpdate([tk EXCEPT !.relevant = relevant,
                                      !.ranked = relevant], store)
       IN  IF Len(embedding) = 0
           THEN /\ tasks' = [tasks EXCEPT ![s] = Returned(tk)]
                /\ notices' = (IF threw THEN {"embedding failed"} ELSE {})
                               \cup ReturnNotices(tk)
                /\ UNCHANGED noteEmbeddings
           ELSE /\ noteEmbeddings' = store
                /\ tasks' = [tasks EXCEPT ![s] = r.task]
                /\ notices' = r.notices
    /\ UNCHANGED <<loaded, settings, saves, vault, sane, processingQueue,
                   delayedProcessingTimer, delayedTimers,
                   scheduledProcessingTimer, scheduledTimers, costEntries,
                   today, burst>>

\* updateNoteWithAI: vault.read(file) has settled; the budget check; the
\* enhancement is requested
UpdateReadDone(s) ==
    /\ UNCHANGED <<events, call>>
    /\ tasks[s].pc = "uRead"
    /\ LET tk == tasks[s]
           r == IF tk.target \notin vault THEN Caught(tk, FALSE)
                ELSE IF BudgetDenied(costEntries, today, settings)
                THEN Caught(tk, TRUE)
                ELSE [task |-> [tk EXCEPT !.pc = "uEnhance"], notices |-> {}]
       IN  /\ tasks' = [tasks EXCEPT ![s] = r.task]
           /\ notices' = r.notices
    /\ UNCHANGED <<loaded, settings, saves, vault, sane, noteEmbeddings,
                   processingQueue, delayedProcessingTimer, delayedTimers,
                   scheduledProcessingTimer, scheduledTimers, costEntries,
                   today, burst>>

\* updateNoteWithAI: generateEnhancement has returned (failed: its own catch
\* showed a notice and returned the empty enhancement); the cost is recorded
\* and the front-matter update is started
EnhanceDone(s, failed, cost) ==
    /\ UNCHANGED <<events, call>>
    /\ tasks[s].pc = "uEnhance"
    /\ tasks' = [tasks EXCEPT ![s].pc = "uApply"]
    /\ costEntries' = IF settings.costTracking
                      THEN recordCost(costEntries, today, "enhancement", cost,
                                      settings.aiProvider)
                      ELSE costEntries
    /\ notices' = IF failed THEN {"error"} ELSE {}
    /\ UNCHANGED <<loaded, settings, saves, vault, sane, noteEmbeddings,
                   processingQueue, delayedProcessingTimer, delayedTimers,
                   scheduledProcessingTimer, scheduledTimers, today, burst>>

\* applyEnhancement: processFrontMatter has settled; the next update of the
\* invocation is started
ApplyDone(s) ==
    /\ UNCHANGED <<events, call>>
    /\ tasks[s].pc = "uApply"
    /\ LET tk == tasks[s]
           r == IF tk.target \in vault THEN NextUpdate(tk, noteEmbeddings)
                ELSE Caught(tk, FALSE)
       IN  /\ tasks' = [tasks EXCEPT ![s] = r.task]
           /\ notices' = r.notices
           /\ sane' = IF tk.target \in vault
                      THEN [sane EXCEPT ![tk.target] = TRUE] ELSE sane
    /\ UNCHANGED <<loaded, settings, saves, vault, noteEmbeddings,
                   processingQueue, delayedProcessingTimer, delayedTimers,
                   scheduledProcessingTimer, scheduledTimers, costEntries,
                   today, burst>>

\* ------------------------------------------------------------------ spec ----
Next ==
    \/ Onload
    \/ Onunload
    \/ SettingChanged
    \/ SaveSettingsDone
    \/ \E p \in Paths : CreateEvent(p)
    \/ \E p \in Paths : ModifyEvent(p)
    \/ \E p \in Paths : DeleteEvent(p)
    \/ \E p \in Paths : ProcessCurrentNote(p)
    \/ InitializeAllNotes
    \/ DelayedTimerFire
    \/ ScheduledTimerFire
    \/ Tick
    \/ \E s \in Slots : FlushNext(s)
    \/ \E s \in Slots : InitNext(s)
    \/ \E s \in Slots : ReadDone(s)
    \/ \E s \in Slots, e \in EmbedResults, threw \in BOOLEAN :
          EmbedDone(s, e, threw)
    \/ \E s \in Slots : UpdateReadDone(s)
    \/ \E s \in Slots, failed \in BOOLEAN, cost \in 1..MaxCost :
          EnhanceDone(s, failed, cost)
    \/ \E s \in Slots : ApplyDone(s)

Spec == Init /\ [][Next]_vars

\* ------------------------------------------------------------ target folder ----
\* The pipeline with a target folder: the plugin is loaded and configured,
\* cost tracking is off, and the Target folder field of the settings tab is
\* edited while no invocation is in flight, so that every invocation runs
\* under one target folder from its start to its end.
TargetFolders == {<<>>, <<"F">>}

\* the onChange of the Target folder field: the setting is assigned, then
\* saveSettings runs up to its await of saveData
TargetFolderChanged(folder) ==
    /\ UserAction
    /\ loaded = "loaded"
    /\ saves < MaxSaves
    /\ folder # settings.targetFolder
    /\ settings' = [settings EXCEPT !.targetFolder = folder]
    /\ saves' = saves + 1
    /\ notices' = {}
    /\ UNCHANGED <<loaded, vault, sane, noteEmbeddings, processingQueue,
                   delayedProcessingTimer, delayedTimers,
                   scheduledProcessingTimer, scheduledTimers, costEntries,
                   today, tasks, burst>>

ScopeInit ==
    /\ loaded = "loaded"
    /\ \E trigger \in {"immediate", "delayed"}, folder \in TargetFolders :
          settings = [DefaultSettings EXCEPT !.processingTrigger = trigger,
                                             !.costTracking = FALSE,
                                             !.openaiApiKey = "sk",
                                             !.targetFolder = folder]
    /\ saves = 0
    /\ vault = Paths
    /\ sane = [p \in Paths |-> FALSE]
    /\ noteEmbeddings \in PersistedStores
    /\ processingQueue = <<>>
    /\ delayedProcessingTimer = "undefined"
    /\ delayedTimers = 0
    /\ scheduledProcessingTimer = "undefined"
    /\ scheduledTimers = 0
    /\ costEntries = <<>>
    /\ today = 0
    /\ tasks = [s \in 1..MaxTasks |-> IdleTask]
    /\ notices = {"loaded"}
    /\ events = 0
    /\ burst = NoBurst
    /\ call = NoCall

ScopeNext ==
    \/ /\ \A s \in Slots : tasks[s].kind = "idle"
       /\ \E folder \in TargetFolders : TargetFolderChanged(folder)
    \/ SaveSettingsDone
    \/ \E p \in Paths : ModifyEvent(p)
    \/ \E p \in Paths : ProcessCurrentNote(p)
    \/ InitializeAllNotes
    \/ DelayedTimerFire
    \/ \E s \in Slots : FlushNext(s)
    \/ \E s \in Slots : InitNext(s)
    \/ \E s \in Slots : ReadDone(s)
    \/ \E s \in Slots, e \in EmbedResults, threw \in BOOLEAN :
          EmbedDone(s, e, threw)
    \/ \E s \in Slots : UpdateReadDone(s)
    \/ \E s \in Slots, failed \in BOOLEAN, cost \in 1..MaxCost :
          EnhanceDone(s, failed, cost)
    \/ \E s \in Slots : ApplyDone(s)

ScopeSpec == ScopeInit /\ [][ScopeNext]_vars

\* ------------------------------------------------------- overlapping flushes ----
\* The debounced pipeline with room for MaxFlushes invocations in flight: the
\* plugin is loaded and configured, the trigger is "delayed", cost tracking is
\* off.
RaceInit ==
    /\ loaded = "loaded"
    /\ settings = [DefaultSettings EXCEPT !.processingTrigger = "delayed",
                                          !.costTracking = FALSE,
                                          !.openaiApiKey = "sk"]
    /\ saves = 0
    /\ vault = Paths
    /\ sane = [p \in Paths |-> FALSE]
    /\ noteEmbeddings = <<>>
    /\ processingQueue = <<>>
    /\ delayedProcessingTimer = "undefined"
    /\ delayedTimers = 0
    /\ scheduledProcessingTimer = "undefined"
    /\ scheduledTimers = 0
    /\ costEntries = <<>>
    /\ today = 0
    /\ tasks = [s \in 1..MaxFlushes |-> IdleTask]
    /\ notices = {"loaded"}
    /\ events = 0
    /\ burst = NoBurst
    /\ call = NoCall

RaceNext ==
    \/ \E p \in Paths : ModifyEvent(p)
    \/ DelayedTimerFire
    \/ \E s \in Slots : FlushNext(s)
    \/ \E s \in Slots : ReadDone(s)
    \/ \E s \in Slots, e \in EmbedResults, threw \in BOOLEAN :
          EmbedDone(s, e, threw)
    \/ \E s \in Slots : UpdateReadDone(s)
    \/ \E s \in Slots, failed \in BOOLEAN, cost \in 1..MaxCost :
          EnhanceDone(s, failed, cost)
    \/ \E s \in Slots : ApplyDone(s)

RaceSpec == RaceInit /\ [][RaceNext]_vars

\* ------------------------------------------------- initialization heuristic ----
\* The command on a vault that is partly embedded already: besides the
\* documents of Paths the vault holds the documents of EmbeddedOrder, of which
\* the first FewestEmbedded or more have an embedding in the store, so that
\* processing the documents of Paths takes the store across the threshold.
\* The embedded documents are all there, or were all deleted while the plugin
\* was not loaded (loadEmbeddings does not look at the vault), which leaves
\* the ranking empty.
EmbeddedOrder ==
    <<"D01", "D02", "D03", "D04", "D05", "D06", "D07", "D08", "D09", "D10">>

EmbeddedStores ==
    {[n \in 1..k |-> [path |-> EmbeddedOrder[n], embedding |-> <<1, 0>>]] :
        k \in FewestEmbedded..Len(EmbeddedOrder)}

HeuristicInit ==
    /\ loaded = "loaded"
    /\ settings = [DefaultSettings EXCEPT !.processingTrigger = "manual",
                                          !.costTracking = FALSE,
                                          !.openaiApiKey = "sk"]
    /\ saves = 0
    /\ vault \in {Paths \cup Range(EmbeddedOrder), Paths}
    /\ sane = [p \in Paths \cup Range(EmbeddedOrder) |-> FALSE]
    /\ noteEmbeddings \in EmbeddedStores
    /\ processingQueue = <<>>
    /\ delayedProcessingTimer = "undefined"
    /\ delayedTimers = 0
    /\ scheduledProcessingTimer = "undefined"
    /\ scheduledTimers = 0
    /\ costEntries = <<>>
    /\ today = 0
    /\ tasks = [s \in 1..MaxTasks |-> IdleTask]
    /\ notices = {"loaded"}
    /\ events = 0
    /\ burst = NoBurst
    /\ call = NoCall

HeuristicNext ==
    \/ \E p \in Paths : ProcessCurrentNote(p)
    \/ \E p \in Paths : DeleteEvent(p)
    \/ \E s \in Slots : ReadDone(s)
    \/ \E s \in Slots, e \in EmbedResults, threw \in BOOLEAN :
          EmbedDone(s, e, threw)
    \/ \E s \in Slots : UpdateReadDone(s)
    \/ \E s \in Slots, failed \in BOOLEAN, cost \in 1..MaxCost :
          EnhanceDone(s, failed, cost)
    \/ \E s \in Slots : ApplyDone(s)

HeuristicSpec == HeuristicInit /\ [][HeuristicNext]_vars

\* ---------------------------------------------------------------- cost log ----
\* recordCost on a log written on earlier days.  The days are taken around
\* the two ends of the retention window; a log is in the order it was
\* written in, so its days do not decrease, and none is later than today.
StampDays == {0, 1, 2, RetentionDays, RetentionDays + 1, RetentionDays + 2}

Providers == {"openai", "google"}

LoggedEntries ==
    [day : StampDays, operation : {"enhancement"}, cost : 1..MaxCost,
     provider : Providers]

CostLogs ==
    UNION {{l \in [1..n -> LoggedEntries] :
               \A i \in 1..(n - 1) : l[i].day <= l[i + 1].day} :
           n \in 0..MaxLogged}

CostInit ==
    /\ loaded = "constructed"
    /\ settings \in {[DefaultSettings EXCEPT !.aiProvider = provider] :
                        provider \in Providers}
    /\ saves = 0
    /\ vault = {}
    /\ sane = [p \in Paths |-> FALSE]
    /\ noteEmbeddings = <<>>
    /\ processingQueue = <<>>
    /\ delayedProcessingTimer = "undefined"
    /\ delayedTimers = 0
    /\ scheduledProcessingTimer = "undefined"
    /\ scheduledTimers = 0
    /\ today \in {RetentionDays + 1, RetentionDays + 2}
    /\ costEntries \in {l \in CostLogs :
                           \A i \in 1..Len(l) : l[i].day <= today}
    /\ tasks = [s \in 1..MaxTasks |-> IdleTask]
    /\ notices = {}
    /\ events = 0
    /\ burst = NoBurst
    /\ call = NoCall

\* this.recordCost('enhancement', tokens), the estimated cost being cost
RecordCost(cost) ==
    /\ call = NoCall
    /\ costEntries' = recordCost(costEntries, today, "enhancement", cost,
                                 settings.aiProvider)
    /\ call' = [fn |-> "recordCost", before |-> costEntries, cost |-> cost]
    /\ UNCHANGED <<loaded, settings, saves, vault, sane, noteEmbeddings,
                   processingQueue, delayedProcessingTimer, delayedTimers,
                   scheduledProcessingTimer, scheduledTimers, today, tasks,
                   notices, events, burst>>

CostNext == \E cost \in 1..MaxCost : RecordCost(cost)

CostSpec == CostInit /\ [][CostNext]_vars

\* -------------------------------------------------------- scheduled timer ----
\* scheduleProcessing as onload and saveSettings call it, at any time of the
\* day, for any schedule hour and trigger, with a scheduled timer pending,
\* fired, or never armed.  A local day has HoursPerDay hours.
ScheduleInit ==
    /\ loaded = "loaded"
    /\ settings \in {[DefaultSettings EXCEPT !.processingTrigger = trigger,
                                             !.scheduleHour = hour] :
                        trigger \in Triggers, hour \in 0..(HoursPerDay - 1)}
    /\ saves = 0
    /\ vault = {}
    /\ sane = [p \in Paths |-> FALSE]
    /\ noteEmbeddings = <<>>
    /\ processingQueue = <<>>
    /\ delayedProcessingTimer = "undefined"
    /\ delayedTimers = 0
    /\ \E armed \in {[handle |-> "undefined", timers |-> 0],
                     [handle |-> "live", timers |-> 1],
                     [handle |-> "dead", timers |-> 0]} :
          /\ scheduledProcessingTimer = armed.handle
          /\ scheduledTimers = armed.timers
    /\ costEntries = <<>>
    /\ today = 0
    /\ tasks = [s \in 1..MaxTasks |-> IdleTask]
    /\ notices = {}
    /\ events = 0
    /\ burst = NoBurst
    /\ call = NoCall

\* this.scheduleProcessing() when the clock reads now
ScheduleProcessing(now) ==
    /\ call = NoCall
    /\ LET t == scheduleProcessing(scheduledProcessingTimer, scheduledTimers,
                                   settings)
       IN  /\ scheduledProcessingTimer' = t.handle
           /\ scheduledTimers' = t.timers
    /\ call' = [fn |-> "scheduleProcessing", now |-> now,
                delay |-> IF settings.processingTrigger = "scheduled"
                          THEN timeUntilScheduled(now, settings)
                          ELSE 0]
    /\ UNCHANGED <<loaded, settings, saves, vault, sane, noteEmbeddings,
                   processingQueue, delayedProcessingTimer, delayedTimers,
                   costEntries, today, tasks, notices, events, burst>>

ScheduleNext ==
    \E now \in 0..(HoursPerDay * TicksPerHour - 1) : ScheduleProcessing(now)

ScheduleSpec == ScheduleInit /\ [][ScheduleNext]_vars

\* ------------------------------------------------------------- write-backs ----
\* The pipeline together with the host's delivery of the modify event that
\* each front-matter write raises: the plugin is loaded and configured, cost
\* tracking is off, and the user edits one document once.
WriteBackInit ==
    /\ loaded = "loaded"
    /\ \E trigger \in {"immediate", "delayed"} :
          settings = [DefaultSettings EXCEPT !.processingTrigger = trigger,
                                             !.costTracking = FALSE,
                                             !.openaiApiKey = "sk"]
    /\ saves = 0
    /\ vault = Paths
    /\ sane = [p \in Paths |-> FALSE]
    /\ noteEmbeddings \in {<<>>, <<[path |-> "A", embedding |-> <<1, 0>>]>>}
    /\ processingQueue = <<>>
    /\ delayedProcessingTimer = "undefined"
    /\ delayedTimers = 0
    /\ scheduledProcessingTimer = "undefined"
    /\ scheduledTimers = 0
    /\ costEntries = <<>>
    /\ today = 0
    /\ tasks = [s \in 1..MaxFlushes |-> IdleTask]
    /\ notices = {"loaded"}
    /\ events = 0
    /\ burst = NoBurst
    /\ call = NoCall

\* the one edit of the user
UserEdit(p) == events = 0 /\ ModifyEvent(p)

\* applyEnhancement: processFrontMatter has written the document and
\* settled, and the host has delivered the modify event of that write to the
\* handler of registerEventHandlers; the invocation goes on to its next
\* update while handleNoteChange runs for the written document
WriteBackDone(s) ==
    /\ UNCHANGED <<events, call>>
    /\ tasks[s].pc = "uApply"
    /\ tasks[s].target \in vault
    /\ LET tk == tasks[s]
           r == NextUpdate(tk, noteEmbeddings)
           after == [tasks EXCEPT ![s] = r.task]
           free == {x \in Slots : after[x].kind = "idle"}
           n == processNote(Task("change", "idle", <<>>, NoPath, <<>>,
                                 NoPath, FALSE), tk.target, settings)
           d == scheduleDelayedProcessing(delayedProcessingTimer,
                                          delayedTimers)
       IN  /\ sane' = [sane EXCEPT ![tk.target] = TRUE]
           /\ IF ~shouldProcessFile(tk.target, settings)
              THEN /\ tasks' = after
                   /\ notices' = r.notices
                   /\ UNCHANGED <<processingQueue, delayedProcessingTimer,
                                  delayedTimers, burst>>
              ELSE /\ processingQueue' = SetAdd(processingQueue, tk.target)
                   /\ IF settings.processingTrigger = "immediate"
                      THEN /\ n.task.kind # "idle" => free # {}
                           /\ tasks' =
                                  IF n.task.kind = "idle" THEN after
                                  ELSE [after EXCEPT
                                           ![CHOOSE x \in free :
                                               \A y \in free : x <= y] =
                                               n.task]
                           /\ notices' = r.notices \cup n.notices
                           /\ UNCHANGED <<delayedProcessingTimer,
                                          delayedTimers, burst>>
                      ELSE IF settings.processingTrigger = "delayed"
                      THEN /\ d.timers <= MaxTimers
                           /\ delayedProcessingTimer' = d.handle
                           /\ delayedTimers' = d.timers
                           /\ burst' = BurstOnChange(tk.target)
                           /\ tasks' = after
                           /\ notices' = r.notices
                      ELSE /\ tasks' = after
                           /\ notices' = r.notices
                           /\ UNCHANGED <<delayedProcessingTimer,
                                          delayedTimers, burst>>
    /\ UNCHANGED <<loaded, settings, saves, vault, noteEmbeddings,
                   scheduledProcessingTimer, scheduledTimers, costEntries,
                   today>>

EmbedSettles(s) ==
    \E e \in EmbedResults, threw \in BOOLEAN : EmbedDone(s, e, threw)

EnhanceSettles(s) ==
    \E failed \in BOOLEAN, cost \in 1..MaxCost : EnhanceDone(s, failed, cost)

WriteBackNext ==
    \/ \E p \in Paths : UserEdit(p)
    \/ DelayedTimerFire
    \/ \E s \in Slots : FlushNext(s)
    \/ \E s \in Slots : ReadDone(s)
    \/ \E s \in Slots : EmbedSettles(s)
    \/ \E s \in Slots : UpdateReadDone(s)
    \/ \E s \in Slots : EnhanceSettles(s)
    \/ \E s \in Slots : WriteBackDone(s)

\* the host fires a timer that is due and settles every awaited call
WriteBackFairness ==
    /\ WF_vars(DelayedTimerFire)
    /\ \A s \in 1..MaxFlushes :
          /\ WF_vars(FlushNext(s))
          /\ WF_vars(ReadDone(s))
          /\ WF_vars(EmbedSettles(s))
          /\ WF_vars(UpdateReadDone(s))
          /\ WF_vars(EnhanceSettles(s))
          /\ WF_vars(WriteBackDone(s))

WriteBackSpec ==
    WriteBackInit /\ [][WriteBackNext]_vars /\ WriteBackFairness

\* ------------------------------------------------------ the debounce, live ----
\* The delayed pipeline of RaceSpec in a host that fires the debounce timer
\* when it is due and settles every awaited call; the user's edits are under
\* no obligation.
DebounceFairness ==
    /\ WF_vars(DelayedTimerFire)
    /\ \A s \in 1..MaxFlushes :
          /\ WF_vars(FlushNext(s))
          /\ WF_vars(ReadDone(s))
          /\ WF_vars(EmbedSettles(s))
          /\ WF_vars(UpdateReadDone(s))
          /\ WF_vars(EnhanceSettles(s))
          /\ WF_vars(ApplyDone(s))

DebounceSpec == RaceInit /\ [][RaceNext]_vars /\ DebounceFairness

\* --------------------------------------------------- overlapping invocations ----
\* The immediate pipeline with room for MaxFlushes invocations in flight:
\* the plugin is loaded and configured, the trigger is "immediate", cost
\* tracking is on, and change events and the command arrive while earlier
\* invocations are suspended.
OverlapInit ==
    /\ loaded = "loaded"
    /\ settings = [DefaultSettings EXCEPT !.processingTrigger = "immediate",
                                          !.costTracking = TRUE,
                                          !.openaiApiKey = "sk"]
    /\ saves = 0
    /\ vault = Paths
    /\ sane = [p \in Paths |-> FALSE]
    /\ noteEmbeddings = <<>>
    /\ processingQueue = <<>>
    /\ delayedProcessingTimer = "undefined"
    /\ delayedTimers = 0
    /\ scheduledProcessingTimer = "undefined"
    /\ scheduledTimers = 0
    /\ costEntries = <<>>
    /\ today = 0
    /\ tasks = [s \in 1..MaxFlushes |-> IdleTask]
    /\ notices = {"loaded"}
    /\ events = 0
    /\ burst = NoBurst
    /\ call = NoCall

OverlapNext ==
    \/ \E p \in Paths : ModifyEvent(p)
    \/ \E p \in Paths : ProcessCurrentNote(p)
    \/ \E s \in Slots : ReadDone(s)
    \/ \E s \in Slots : EmbedSettles(s)
    \/ \E s \in Slots : UpdateReadDone(s)
    \/ \E s \in Slots, failed \in BOOLEAN, cost \in 1..MaxCharge :
          EnhanceDone(s, failed, cost)
    \/ \E s \in Slots : ApplyDone(s)

OverlapSpec == OverlapInit /\ [][OverlapNext]_vars

\* ------------------------------------------------- one document, edited ----
\* The overlapping pipeline on one document that the user edits again and
\* again.  Each edit gives the document a content of its own: after the
\* n-th edit its content is n, the number of user actions so far.
Edited == "A"

ContentOf(file) == events

\* generateEmbedding(cleanContent): the provider's vector for the content
EmbeddingOf(content) == <<content, 1>>

Edit == ModifyEvent(Edited)

\* processNote: vault.read(file) has returned the document's content of the
\* moment
ReadContent(s) ==
    /\ UNCHANGED <<events, call>>
    /\ tasks[s].pc = "read"
    /\ tasks[s].file \in vault
    /\ tasks' = [tasks EXCEPT ![s] = [@ EXCEPT !.pc = "embed",
                                     !.content = ContentOf(@.file)]]
    /\ notices' = {}
    /\ UNCHANGED <<loaded, settings, saves, vault, sane, noteEmbeddings,
                   processingQueue, delayedProcessingTimer, delayedTimers,
                   scheduledProcessingTimer, scheduledTimers, costEntries,
                   today, burst>>

\* processNote: generateEmbedding has returned the vector of the content
\* that was read
EmbedContent(s) == EmbedDone(s, EmbeddingOf(tasks[s].content), FALSE)

EditedNext ==
    \/ Edit
    \/ \E s \in Slots : ReadContent(s)
    \/ \E s \in Slots : EmbedContent(s)
    \/ \E s \in Slots : UpdateReadDone(s)
    \/ \E s \in Slots : EnhanceSettles(s)
    \/ \E s \in Slots : ApplyDone(s)

EditedSpec == OverlapInit /\ [][EditedNext]_vars

\* ---------------------------------------------------------------- ranking ----
\* findRelevantNotes applied to a store, a vault, a path and a count
Components == {0 - 1, 0, 1, 2}
Vectors == UNION {[1..n -> Components] : n \in 0..MaxDim}
StoredVectors == {<<1, 0>>, <<0, 1>>, <<1, 1>>, <<1, 2>>, <<2>>}

\* the maps from some of the paths to stored vectors, in every insertion order
RECURSIVE StoresOver(_)
StoresOver(ps) ==
    IF ps = {} THEN {<<>>}
    ELSE UNION {{Append(st, [path |-> p, embedding |-> v]) :
                    st \in StoresOver(ps \ {p}), v \in StoredVectors} :
                p \in ps}
Stores == UNION {StoresOver(ps) : ps \in SUBSET Paths}

RankInit ==
    /\ Constructed
    /\ noteEmbeddings \in Stores
    /\ vault \in SUBSET Paths

RankCall(p, k) ==
    /\ call = NoCall
    /\ call' = [fn |-> "findRelevantNotes", excludePath |-> p, count |-> k,
                result |-> findRelevantNotes(noteEmbeddings, vault, p, k)]
    /\ UNCHANGED <<loaded, settings, saves, vault, sane, noteEmbeddings,
                   processingQueue, delayedProcessingTimer, delayedTimers,
                   scheduledProcessingTimer, scheduledTimers, costEntries,
                   today, tasks, notices, events, burst>>

RankNext == \E p \in Paths, k \in 0..MaxK : RankCall(p, k)

RankSpec == RankInit /\ [][RankNext]_vars

\* ----------------------------------------------------------------- upsert ----
\* noteEmbeddings.set(file.path, ...) of processNote applied to a store, and
\* applied once more with the same path and vector
UpsertInit ==
    /\ Constructed
    /\ noteEmbeddings \in Stores
    /\ vault \in {Paths, Paths \ {"C"}}

Upsert(p, v) ==
    /\ \/ call = NoCall
       \/ /\ call.fn = "noteEmbeddings.set"
          /\ ~call.repeated
          /\ call.path = p
          /\ call.embedding = v
    /\ noteEmbeddings' = MapSet(noteEmbeddings, p, v)
    /\ call' = [fn |-> "noteEmbeddings.set", path |-> p, embedding |-> v,
                before |-> noteEmbeddings, repeated |-> call # NoCall]
    /\ UNCHANGED <<loaded, settings, saves, vault, sane, processingQueue,
                   delayedProcessingTimer, delayedTimers,
                   scheduledProcessingTimer, scheduledTimers, costEntries,
                   today, tasks, notices, events, burst>>

UpsertNext == \E p \in Paths, v \in StoredVectors : Upsert(p, v)

UpsertSpec == UpsertInit /\ [][UpsertNext]_vars

\* ------------------------------------------------------------- similarity ----
\* cosineSimilarity applied to two vectors
SimilarityInit ==
    /\ Constructed
    /\ noteEmbeddings = <<>>
    /\ vault = Paths

SimilarityCall(a, b) ==
    /\ call = NoCall
    /\ call' = [fn |-> "cosineSimilarity", a |-> a, b |-> b,
                result |-> cosineSimilarity(a, b)]
    /\ UNCHANGED <<loaded, settings, saves, vault, sane, noteEmbeddings,
                   processingQueue, delayedProcessingTimer, delayedTimers,
                   scheduledProcessingTimer, scheduledTimers, costEntries,
                   today, tasks, notices, events, burst>>

SimilarityNext == \E a, b \in Vectors : SimilarityCall(a, b)

SimilaritySpec == SimilarityInit /\ [][SimilarityNext]_vars

\* ----------------------------------------------------------------- parser ----
\* A text is a sequence of symbols: single characters, and the words tags,
\* keywords, links, summary, json and null, which no pattern of the parser
\* splits, and fence, a run of three backticks.
Quote == "\""
Apostrophe == "'"
Newline == "\n"
IsSpace(c) == c \in {" ", Newline}
IsQuote(c) == c \in {Quote, Apostrophe}

RECURSIVE TrimStart(_)
TrimStart(t) == IF t # <<>> /\ IsSpace(Head(t)) THEN TrimStart(Tail(t)) ELSE t

RECURSIVE TrimEnd(_)
TrimEnd(t) == IF t # <<>> /\ IsSpace(t[Len(t)])
              THEN TrimEnd(SubSeq(t, 1, Len(t) - 1)) ELSE t

\* String.prototype.trim
Trim(t) == TrimEnd(TrimStart(t))

\* replace(/['"]/g, '')
StripQuotes(t) == SelectSeq(t, LAMBDA c : ~IsQuote(c))

\* split(','): the pieces between the commas, empty ones included
RECURSIVE Split(_)
Split(t) ==
    IF \A i \in 1..Len(t) : t[i] # "," THEN <<t>>
    ELSE LET i == CHOOSE k \in 1..Len(t) :
                      t[k] = "," /\ \A j \in 1..(k - 1) : t[j] # ","
         IN  <<SubSeq(t, 1, i - 1)>> \o Split(SubSeq(t, i + 1, Len(t)))

\* t holds w from position i on
HasAt(t, i, w) ==
    /\ i >= 1
    /\ i + Len(w) - 1 <= Len(t)
    /\ \A j \in 1..Len(w) : t[i + j - 1] = w[j]

StartsWith(t, w) == HasAt(t, 1, w)
EndsWith(t, w) == HasAt(t, Len(t) - Len(w) + 1, w)

\* indexOf and lastIndexOf, 1-based; 0 when w does not occur
IndexOf(t, w) ==
    IF \E i \in 1..Len(t) : HasAt(t, i, w)
    THEN CHOOSE i \in 1..Len(t) :
             HasAt(t, i, w) /\ \A j \in 1..(i - 1) : ~HasAt(t, j, w)
    ELSE 0

LastIndexOf(t, w) ==
    IF \E i \in 1..Len(t) : HasAt(t, i, w)
    THEN CHOOSE i \in 1..Len(t) :
             HasAt(t, i, w) /\ \A j \in (i + 1)..Len(t) : ~HasAt(t, j, w)
    ELSE 0

\* the position after the white space that starts at i
RECURSIVE SkipSpace(_, _)
SkipSpace(t, i) ==
    IF i <= Len(t) /\ IsSpace(t[i]) THEN SkipSpace(t, i + 1) ELSE i

\* the link formatting of both parser stages
FormatLink(link) ==
    IF StartsWith(link, <<"[", "[">>) /\ EndsWith(link, <<"]", "]">>)
    THEN link
    ELSE <<"[", "[">> \o Trim(StripQuotes(link)) \o <<"]", "]">>

\* links.map(link => ...)
FormatLinks(links) == [i \in 1..Len(links) |-> FormatLink(links[i])]

EmptyEnhancement ==
    [tags |-> <<>>, keywords |-> <<>>, links |-> <<>>, summary |-> <<>>]

NoMatch == [found |-> FALSE, group |-> <<>>]

\* /"key"\s*:\s*\[([\s\S]*?)\]/ tried at position i
ArrayBodyAt(t, key, i) ==
    IF ~HasAt(t, i, <<Quote, key, Quote>>) THEN NoMatch
    ELSE LET c == SkipSpace(t, i + 3)
         IN  IF ~HasAt(t, c, <<":">>) THEN NoMatch
             ELSE LET b == SkipSpace(t, c + 1)
                  IN  IF ~HasAt(t, b, <<"[">>) THEN NoMatch
                      ELSE IF \A j \in (b + 1)..Len(t) : t[j] # "]"
                      THEN NoMatch
                      ELSE LET close == CHOOSE j \in (b + 1)..Len(t) :
                                   /\ t[j] = "]"
                                   /\ \A k \in (b + 1)..(j - 1) : t[k] # "]"
                           IN  [found |-> TRUE,
                                group |-> SubSeq(t, b + 1, close - 1)]

\* String.prototype.match, matches[i] being the pattern tried at position i:
\* the leftmost match
FirstMatch(matches) ==
    IF \E i \in 1..Len(matches) : matches[i].found
    THEN matches[CHOOSE i \in 1..Len(matches) :
                     /\ matches[i].found
                     /\ \A j \in 1..(i - 1) : ~matches[j].found]
    ELSE NoMatch

ArrayBody(t, key) == FirstMatch([i \in 1..Len(t) |-> ArrayBodyAt(t, key, i)])

\* map(e => e.trim().replace(/['"]/g, ''))
Cleaned(pieces) ==
    [i \in 1..Len(pieces) |-> StripQuotes(Trim(pieces[i]))]

\* mutant: the empty elements are kept
Elements_KeepEmpty(body) == Cleaned(Split(body))

\* split(',').map(e => e.trim().replace(/['"]/g, '')).filter(e => e.length > 0)
Elements(body) ==
    SelectSeq(Cleaned(Split(body)), LAMBDA e : Len(e) > 0)

\* /"summary"\s*:\s*"([^"]*)"/ and /"summary"\s*:\s*'([^']*)'/, the value
\* delimited by d, tried at position i
QuotedSummaryAt(t, d, i) ==
    IF ~HasAt(t, i, <<Quote, "summary", Quote>>) THEN NoMatch
    ELSE LET c == SkipSpace(t, i + 3)
         IN  IF ~HasAt(t, c, <<":">>) THEN NoMatch
             ELSE LET b == SkipSpace(t, c + 1)
                  IN  IF ~HasAt(t, b, <<d>>) THEN NoMatch
                      ELSE IF \A j \in (b + 1)..Len(t) : t[j] # d
                      THEN NoMatch
                      ELSE LET close == CHOOSE j \in (b + 1)..Len(t) :
                                   /\ t[j] = d
                                   /\ \A k \in (b + 1)..(j - 1) : t[k] # d
                           IN  [found |-> TRUE,
                                group |-> SubSeq(t, b + 1, close - 1)]

\* the run of characters other than the newline that starts at q
RECURSIVE LineFrom(_, _)
LineFrom(t, q) ==
    IF q > Len(t) \/ t[q] = Newline THEN <<>>
    ELSE <<t[q]>> \o LineFrom(t, q + 1)

\* /summary[^:]*:\s*(.+?)(?:\n|$)/i tried at position i: the colon is the
\* first one after the word; \s* takes as much white space as leaves a
\* character other than the newline for the group
LooseSummaryAt(t, i) ==
    IF ~HasAt(t, i, <<"summary">>) THEN NoMatch
    ELSE IF \A j \in (i + 1)..Len(t) : t[j] # ":" THEN NoMatch
    ELSE LET c == CHOOSE j \in (i + 1)..Len(t) :
                      t[j] = ":" /\ \A k \in (i + 1)..(j - 1) : t[k] # ":"
             most == SkipSpace(t, c + 1)
             starts == {q \in (c + 1)..most :
                           q <= Len(t) /\ t[q] # Newline}
         IN  IF starts = {} THEN NoMatch
             ELSE LET q == CHOOSE x \in starts : \A y \in starts : y <= x
                  IN  [found |-> TRUE, group |-> LineFrom(t, q)]

SummaryMatch(t) ==
    LET double == FirstMatch([i \in 1..Len(t) |->
                                 QuotedSummaryAt(t, Quote, i)])
        single == FirstMatch([i \in 1..Len(t) |->
                                 QuotedSummaryAt(t, Apostrophe, i)])
        loose == FirstMatch([i \in 1..Len(t) |-> LooseSummaryAt(t, i)])
    IN  IF double.found THEN double
        ELSE IF single.found THEN single
        ELSE loose

extractWithFallback(response) ==
    LET tagsMatch == ArrayBody(response, "tags")
        keywordsMatch == ArrayBody(response, "keywords")
        linksMatch == ArrayBody(response, "links")
        summaryMatch == SummaryMatch(response)
    IN  [tags |-> IF tagsMatch.found THEN Elements(tagsMatch.group)
                  ELSE <<>>,
         keywords |-> IF keywordsMatch.found
                      THEN Elements(keywordsMatch.group) ELSE <<>>,
         links |-> IF linksMatch.found
                   THEN FormatLinks(Elements(linksMatch.group))
                   ELSE <<>>,
         summary |-> IF summaryMatch.found THEN Trim(summaryMatch.group)
                     ELSE <<>>]

\* JSON.parse.  A value is [type |-> "string", chars], [type |-> "number",
\* value], [type |-> "null"], [type |-> "array", items] or [type |->
\* "object", fields], fields a sequence of [key, value].  A parse returns
\* the value and the position after it.
ParseError == [ok |-> FALSE]

\* A number is the ratio num / den in lowest terms, den a power of two as
\* that of every finite double is.
Num(n, d) == [num |-> n, den |-> d]

RECURSIVE Gcd(_, _)
Gcd(a, b) == IF b = 0 THEN a ELSE Gcd(b, a % b)

Ratio(n, d) == LET g == Gcd(Abs(n), d) IN Num(n \div g, d \div g)

Digits == <<"0", "1", "2", "3", "4", "5", "6", "7", "8", "9">>
IsDigit(c) == \E k \in 1..10 : Digits[k] = c
DigitValue(c) == (CHOOSE k \in 1..10 : Digits[k] = c) - 1

RECURSIVE SkipDigits(_, _)
SkipDigits(t, i) ==
    IF i <= Len(t) /\ IsDigit(t[i]) THEN SkipDigits(t, i + 1) ELSE i

\* the value of the digits t[i..j-1] read as a decimal numeral
RECURSIVE DecimalValue(_, _, _)
DecimalValue(t, i, j) ==
    IF j <= i THEN 0
    ELSE 10 * DecimalValue(t, i, j - 1) + DigitValue(t[j - 1])

\* a number that opens at i: -? (0 | [1-9][0-9]*) (. [0-9]+)?
ParseNumber(t, i) ==
    LET negative == HasAt(t, i, <<"-">>)
        int == IF negative THEN i + 1 ELSE i
        dot == SkipDigits(t, int)
        fraction == HasAt(t, dot, <<".">>)
        end == IF fraction THEN SkipDigits(t, dot + 1) ELSE dot
        scale == IF fraction THEN 10 ^ (end - dot - 1) ELSE 1
        whole == DecimalValue(t, int, dot)
        part == IF fraction THEN DecimalValue(t, dot + 1, end) ELSE 0
        magnitude == whole * scale + part
    IN  IF dot = int THEN ParseError
        ELSE IF t[int] = "0" /\ dot > int + 1 THEN ParseError
        ELSE IF fraction /\ end = dot + 1 THEN ParseError
        ELSE [ok |-> TRUE,
              value |-> [type |-> "number",
                         value |-> Ratio(IF negative THEN 0 - magnitude
                                         ELSE magnitude, scale)],
              next |-> end]

Backslash == "\\"

\* the characters of a string from position i up to its closing quote, the
\* escapes \" \\ and \n read back; a raw newline or the end of the text
\* before the quote is an error
RECURSIVE ParseChars(_, _, _)
ParseChars(t, i, chars) ==
    IF i > Len(t) \/ t[i] = Newline THEN ParseError
    ELSE IF t[i] = Quote
    THEN [ok |-> TRUE, value |-> [type |-> "string", chars |-> chars],
          next |-> i + 1]
    ELSE IF t[i] = Backslash
    THEN IF HasAt(t, i + 1, <<Quote>>)
         THEN ParseChars(t, i + 2, Append(chars, Quote))
         ELSE IF HasAt(t, i + 1, <<Backslash>>)
         THEN ParseChars(t, i + 2, Append(chars, Backslash))
         ELSE IF HasAt(t, i + 1, <<"n">>)
         THEN ParseChars(t, i + 2, Append(chars, Newline))
         ELSE ParseError
    ELSE ParseChars(t, i + 1, Append(chars, t[i]))

\* a string that opens at i
ParseString(t, i) ==
    IF ~HasAt(t, i, <<Quote>>) THEN ParseError
    ELSE ParseChars(t, i + 1, <<>>)

RECURSIVE ParseValue(_, _)
RECURSIVE ParseItems(_, _, _)
RECURSIVE ParseFields(_, _, _)

\* the items of an array after its "[" or after a ","
ParseItems(t, i, items) ==
    LET v == ParseValue(t, SkipSpace(t, i))
    IN  IF ~v.ok THEN ParseError
        ELSE LET j == SkipSpace(t, v.next)
                 got == Append(items, v.value)
             IN  IF HasAt(t, j, <<",">>) THEN ParseItems(t, j + 1, got)
                 ELSE IF HasAt(t, j, <<"]">>)
                 THEN [ok |-> TRUE,
                       value |-> [type |-> "array", items |-> got],
                       next |-> j + 1]
                 ELSE ParseError

\* the members of an object after its "{" or after a ","
ParseFields(t, i, fields) ==
    LET k == ParseString(t, SkipSpace(t, i))
    IN  IF ~k.ok THEN ParseError
        ELSE LET c == SkipSpace(t, k.next)
             IN  IF ~HasAt(t, c, <<":">>) THEN ParseError
                 ELSE LET v == ParseValue(t, SkipSpace(t, c + 1))
                      IN  IF ~v.ok THEN ParseError
                          ELSE LET j == SkipSpace(t, v.next)
                                   got == Append(fields,
                                             [key |-> k.value.chars,
                                              value |-> v.value])
                               IN  IF HasAt(t, j, <<",">>)
                                   THEN ParseFields(t, j + 1, got)
                                   ELSE IF HasAt(t, j, <<"}">>)
                                   THEN [ok |-> TRUE,
                                         value |-> [type |-> "object",
                                                    fields |-> got],
                                         next |-> j + 1]
                                   ELSE ParseError

ParseValue(t, i) ==
    IF i > Len(t) THEN ParseError
    ELSE IF t[i] = Quote THEN ParseString(t, i)
    ELSE IF t[i] = "null"
    THEN [ok |-> TRUE, value |-> [type |-> "null"], next |-> i + 1]
    ELSE IF IsDigit(t[i]) \/ t[i] = "-" THEN ParseNumber(t, i)
    ELSE IF t[i] = "["
    THEN LET j == SkipSpace(t, i + 1)
         IN  IF HasAt(t, j, <<"]">>)
             THEN [ok |-> TRUE, value |-> [type |-> "array", items |-> <<>>],
                   next |-> j + 1]
             ELSE ParseItems(t, i + 1, <<>>)
    ELSE IF t[i] = "{"
    THEN LET j == SkipSpace(t, i + 1)
         IN  IF HasAt(t, j, <<"}">>)
             THEN [ok |-> TRUE,
                   value |-> [type |-> "object", fields |-> <<>>],
                   next |-> j + 1]
             ELSE ParseFields(t, i + 1, <<>>)
    ELSE ParseError

JsonParse(t) ==
    LET v == ParseValue(t, SkipSpace(t, 1))
    IN  IF v.ok /\ SkipSpace(t, v.next) = Len(t) + 1 THEN v ELSE ParseError

Undefined == [type |-> "undefined"]

\* parsed[key]: the last member of that name; undefined when there is none
\* or parsed is no object
Property(parsed, key) ==
    IF parsed.type # "object" THEN Undefined
    ELSE LET at == {i \in 1..Len(parsed.fields) :
                       parsed.fields[i].key = <<key>>}
         IN  IF at = {} THEN Undefined
             ELSE parsed.fields[CHOOSE i \in at : \A j \in at : j <= i].value

\* Array.isArray(v) ? v.filter(x => typeof x === 'string' && x.length > 0) : []
Strings(v) ==
    IF v.type # "array" THEN <<>>
    ELSE LET kept == SelectSeq(v.items,
                        LAMBDA x : x.type = "string" /\ Len(x.chars) > 0)
         IN  [i \in 1..Len(kept) |-> kept[i].chars]

\* the text JSON.parse is given: the response trimmed, taken out of its
\* code block, cut down to its outermost braces
CleanResponse(response) ==
    LET trimmed == Trim(response)
        fence == IF IndexOf(trimmed, <<"fence", "json">>) > 0
                 THEN IndexOf(trimmed, <<"fence", "json">>) + 2
                 ELSE IF IndexOf(trimmed, <<"fence">>) > 0
                 THEN IndexOf(trimmed, <<"fence">>) + 1
                 ELSE 0
        jsonEnd == LastIndexOf(trimmed, <<"fence">>)
        unfenced == IF fence > 0 /\ jsonEnd > fence
                    THEN Trim(SubSeq(trimmed, fence, jsonEnd - 1))
                    ELSE trimmed
        open == IndexOf(unfenced, <<"{">>)
        close == LastIndexOf(unfenced, <<"}">>)
    IN  IF open > 0 /\ close > open THEN SubSeq(unfenced, open, close)
        ELSE unfenced

\* mutant: a parse that fails returns nothing instead of the fallback
parseAIResponse_NoFallback(response) ==
    LET parsed == JsonParse(CleanResponse(response))
    IN  IF ~parsed.ok \/ parsed.value.type = "null" THEN Undefined
        ELSE [tags |-> Strings(Property(parsed.value, "tags")),
              keywords |-> Strings(Property(parsed.value, "keywords")),
              links |-> FormatLinks(Strings(Property(parsed.value, "links"))),
              summary |-> IF Property(parsed.value, "summary").type = "string"
                          THEN Trim(Property(parsed.value, "summary").chars)
                          ELSE <<>>]

\* reading a property of null throws inside the try, as a failed parse does
parseAIResponse(response) ==
    LET parsed == JsonParse(CleanResponse(response))
    IN  IF ~parsed.ok \/ parsed.value.type = "null"
        THEN extractWithFallback(response)
        ELSE [tags |-> Strings(Property(parsed.value, "tags")),
              keywords |-> Strings(Property(parsed.value, "keywords")),
              links |-> FormatLinks(Strings(Property(parsed.value, "links"))),
              summary |-> IF Property(parsed.value, "summary").type = "string"
                          THEN Trim(Property(parsed.value, "summary").chars)
                          ELSE <<>>]

\* -------------------------------------------------------------- responses ----
\* The raw model outputs the parser is applied to.  A written response is an
\* object of the four fields, each present or not, in one of the Shapes; the
\* other responses are the outputs that are no object at all.
A == "a"

\* the texts an array element is written as: a string, a string after a
\* space, a string that opens with a space, the empty string, a bare word, a
\* number
TagTexts ==
    {<<Quote, A, Quote>>, <<" ", Quote, "b", Quote>>, <<Quote, " ", A, Quote>>,
     <<Quote, Quote>>, <<A>>, <<"7">>}

\* a plain title, a title in bracket form, a bare word
LinkTexts ==
    {<<Quote, A, Quote>>, <<Quote, "[", "[", A, "]", "]", Quote>>, <<A>>}

KeywordTexts == {<<Quote, A, Quote>>}

SummaryTexts ==
    {<<Quote, A, " ", "b", Quote>>, <<Quote, " ", A, Quote>>, <<"7">>}

Shapes == {"object", "truncated", "comma", "json block", "block", "prose"}

SeqsUpTo(S, n) == UNION {[1..k -> S] : k \in 0..n}

Absent == [present |-> FALSE, elements |-> <<>>]
Empty == [present |-> TRUE, elements |-> <<>>]
Arrays(S, n) == {Absent} \cup {[present |-> TRUE, elements |-> e] :
                                   e \in SeqsUpTo(S, n)}

Written ==
    [shape : Shapes,
     tags : Arrays(TagTexts, MaxElements),
     keywords : Arrays(KeywordTexts, 1) \ {Empty},
     links : Arrays(LinkTexts, MaxLinks),
     summary : Arrays(SummaryTexts, 1) \ {Empty}]

RECURSIVE Join(_, _)
Join(texts, sep) ==
    IF texts = <<>> THEN <<>>
    ELSE IF Len(texts) = 1 THEN texts[1]
    ELSE texts[1] \o sep \o Join(Tail(texts), sep)

RenderArray(key, array) ==
    IF array.present
    THEN << <<Quote, key, Quote, ":", " ", "[">>
            \o Join(array.elements, <<",">>) \o <<"]">> >>
    ELSE <<>>

RenderSummary(summary) ==
    IF summary.present
    THEN << <<Quote, "summary", Quote, ":", " ">> \o summary.elements[1] >>
    ELSE <<>>

RenderFields(w) ==
    Join(RenderArray("tags", w.tags) \o RenderArray("keywords", w.keywords)
           \o RenderArray("links", w.links) \o RenderSummary(w.summary),
         <<",", Newline>>)

Render(w) ==
    LET object == <<"{">> \o RenderFields(w) \o <<"}">>
    IN  CASE w.shape = "object" -> object
          [] w.shape = "truncated" -> <<"{">> \o RenderFields(w)
          [] w.shape = "comma" -> <<"{">> \o RenderFields(w) \o <<",", "}">>
          [] w.shape = "json block" ->
                 <<"fence", "json", Newline>> \o object \o <<Newline, "fence">>
          [] w.shape = "block" ->
                 <<"fence", Newline>> \o object \o <<Newline, "fence">>
          [] w.shape = "prose" -> <<A, " ">> \o object \o <<" ", A, Newline>>

NotWritten ==
    [shape |-> "other", tags |-> Absent, keywords |-> Absent,
     links |-> Absent, summary |-> Absent]

OtherResponses ==
    {<<>>, <<" ", Newline>>, <<"null">>, <<"7">>, <<A>>, <<Quote, A, Quote>>,
     <<"[", Quote, A, Quote, "]">>, <<"{">>, <<"}", "{">>,
     <<"fence", "json", "fence">>,
     <<"fence", "json", Newline, "null", Newline, "fence">>,
     <<"fence", "json", Newline, "null", Newline, "fence", Newline,
       Quote, "tags", Quote, ":", " ", "[", Quote, A, Quote, "]">>,
     <<"summary", ":", " ", A, " ", "b", Newline, A>>,
     <<"{", Quote, "tags", Quote, ":", "null", "}">>,
     <<"{", Quote, "summary", Quote, ":", Apostrophe, A, Apostrophe, "}">>}

Inputs ==
    {[response |-> Render(w), written |-> w] : w \in Written}
      \cup {[response |-> r, written |-> NotWritten] : r \in OtherResponses}

ParseInit ==
    /\ Constructed
    /\ vault = {}
    /\ noteEmbeddings = <<>>

ParseCall(input) ==
    /\ call = NoCall
    /\ call' = [fn |-> "parseAIResponse", response |-> input.response,
                written |-> input.written,
                result |-> parseAIResponse(input.response)]
    /\ UNCHANGED <<loaded, settings, saves, vault, sane, noteEmbeddings,
                   processingQueue, delayedProcessingTimer, delayedTimers,
                   scheduledProcessingTimer, scheduledTimers, costEntries,
                   today, tasks, notices, events, burst>>

ParseNext == \E input \in Inputs : ParseCall(input)

ParseSpec == ParseInit /\ [][ParseNext]_vars

\* ---------------------------------------------------------------- storage ----
\* JSON.stringify of the entries of the map and its reading back.  An entry
\* here carries all the fields of a NoteEmbedding: the path, the vector, the
\* clean text and the time of the update.
RECURSIVE IntDigits(_)
IntDigits(n) ==
    IF n < 10 THEN <<Digits[n + 1]>>
    ELSE IntDigits(n \div 10) \o <<Digits[(n % 10) + 1]>>

\* the decimal digits of r / d, d a power of two, after the point
RECURSIVE FractionDigits(_, _)
FractionDigits(r, d) ==
    IF r = 0 THEN <<>>
    ELSE <<Digits[((r * 10) \div d) + 1]>> \o FractionDigits((r * 10) % d, d)

\* Number::toString of a number whose decimal expansion is short
NumberToString(x) ==
    LET magnitude == Abs(x.num)
        rest == magnitude % x.den
    IN  (IF x.num < 0 THEN <<"-">> ELSE <<>>)
          \o IntDigits(magnitude \div x.den)
          \o (IF rest = 0 THEN <<>>
              ELSE <<".">> \o FractionDigits(rest, x.den))

RECURSIVE Escaped(_)
Escaped(chars) ==
    IF chars = <<>> THEN <<>>
    ELSE (CASE Head(chars) = Quote -> <<Backslash, Quote>>
            [] Head(chars) = Backslash -> <<Backslash, Backslash>>
            [] Head(chars) = Newline -> <<Backslash, "n">>
            [] OTHER -> <<Head(chars)>>) \o Escaped(Tail(chars))

\* mutant: the characters are written between the quotes as they are
JsonQuote_Unescaped(chars) == <<Quote>> \o chars \o <<Quote>>

\* QuoteJSONString
JsonQuote(chars) == <<Quote>> \o Escaped(chars) \o <<Quote>>

StringifyArray(texts) == <<"[">> \o Join(texts, <<",">>) \o <<"]">>

\* one [path, {path, content, embedding, lastUpdated}] pair
StringifyEntry(e) ==
    StringifyArray(<<
        JsonQuote(<<e.path>>),
        <<"{">>
          \o <<Quote, "path", Quote, ":">> \o JsonQuote(<<e.path>>)
          \o <<",", Quote, "content", Quote, ":">> \o JsonQuote(e.content)
          \o <<",", Quote, "embedding", Quote, ":">>
          \o StringifyArray([i \in 1..Len(e.embedding) |->
                               NumberToString(e.embedding[i])])
          \o <<",", Quote, "lastUpdated", Quote, ":">>
          \o NumberToString(e.lastUpdated)
          \o <<"}">> >>)

\* JSON.stringify(Array.from(this.noteEmbeddings.entries()))
saveEmbeddings(map) ==
    StringifyArray([i \in 1..Len(map) |-> StringifyEntry(map[i])])

Item(array, k) == IF k <= Len(array.items) THEN array.items[k] ELSE Undefined

\* a parsed value as the store holds it; a value of another type stays the
\* parsed value it is
TextOf(v) == IF v.type = "string" THEN v.chars ELSE v
NumberOf(v) == IF v.type = "number" THEN v.value ELSE v
VectorOf(v) ==
    IF v.type = "array" THEN [i \in 1..Len(v.items) |-> NumberOf(v.items[i])]
    ELSE v

\* a path is the one symbol of its text
EntryOf(item) ==
    [path |-> LET key == TextOf(Item(item, 1))
              IN  IF Item(item, 1).type = "string" /\ Len(key) = 1
                  THEN key[1] ELSE key,
     embedding |-> VectorOf(Property(Item(item, 2), "embedding")),
     content |-> TextOf(Property(Item(item, 2), "content")),
     lastUpdated |-> NumberOf(Property(Item(item, 2), "lastUpdated"))]

\* new Map(data): the pairs set one after the other
RECURSIVE NewMap(_, _)
NewMap(items, map) ==
    IF items = <<>> THEN map
    ELSE LET e == EntryOf(Head(items))
             at == {i \in 1..Len(map) : map[i].path = e.path}
         IN  NewMap(Tail(items),
                    IF at = {} THEN Append(map, e)
                    ELSE [map EXCEPT ![CHOOSE i \in at : TRUE] = e])

\* the map after loadEmbeddings when localStorage holds stored: a blob that
\* is empty, does not parse or is no array of pairs leaves the map as it was
loadEmbeddings(map, stored) ==
    IF stored = <<>> THEN map
    ELSE LET data == JsonParse(stored)
         IN  IF ~data.ok THEN map
             ELSE IF data.value.type = "null" THEN <<>>
             ELSE IF data.value.type # "array" THEN map
             ELSE IF \E i \in 1..Len(data.value.items) :
                         data.value.items[i].type # "array"
             THEN map
             ELSE NewMap(data.value.items, <<>>)

StoredEmbeddings ==
    {<<Num(1, 2), Num(0 - 3, 4)>>, <<Num(0, 1), Num(12, 1)>>, <<Num(0 - 1, 1)>>}
StoredContents == {<<>>, <<A, " ", Quote, "n", Newline, Backslash>>}
StoredTimes == {Num(7, 1), Num(120, 1)}

\* the maps of up to MaxStored entries, in every insertion order
RECURSIVE FullStores(_, _)
FullStores(ps, n) ==
    IF n = 0 THEN {<<>>}
    ELSE {<<>>} \cup
         UNION {{<<[path |-> p, embedding |-> v, content |-> c,
                    lastUpdated |-> u]>> \o st :
                    st \in FullStores(ps \ {p}, n - 1),
                    v \in StoredEmbeddings, c \in StoredContents,
                    u \in StoredTimes} :
                p \in ps}

StorageInit ==
    /\ Constructed
    /\ vault = {}
    /\ noteEmbeddings \in FullStores(Paths, MaxStored)

\* onunload of the instance: the map is written to localStorage
SaveEmbeddings ==
    /\ call = NoCall
    /\ call' = [fn |-> "saveEmbeddings", saved |-> noteEmbeddings,
                blob |-> saveEmbeddings(noteEmbeddings)]
    /\ UNCHANGED <<loaded, settings, saves, vault, sane, noteEmbeddings,
                   processingQueue, delayedProcessingTimer, delayedTimers,
                   scheduledProcessingTimer, scheduledTimers, costEntries,
                   today, tasks, notices, events, burst>>

\* onload of the next instance, whose map starts as new Map()
LoadEmbeddings ==
    /\ call.fn = "saveEmbeddings"
    /\ noteEmbeddings' = loadEmbeddings(<<>>, call.blob)
    /\ call' = [call EXCEPT !.fn = "loadEmbeddings"]
    /\ UNCHANGED <<loaded, settings, saves, vault, sane, processingQueue,
                   delayedProcessingTimer, delayedTimers,
                   scheduledProcessingTimer, scheduledTimers, costEntries,
                   today, tasks, notices, events, burst>>

StorageNext == SaveEmbeddings \/ LoadEmbeddings

StorageSpec == StorageInit /\ [][StorageNext]_vars

\* ------------------------------------------------------------ front-matter ----
\* The front-matter of a document as applyEnhancement reads and writes it:
\* a key is undefined or holds a value.  processFrontMatter hands the
\* callback the parsed front-matter and writes back what the callback left.
Defined(v) == [type |-> "defined", value |-> v]

\* Date.prototype.toISOString of the time t
ToISOString(t) == <<"ISO", t>>

\* mutant: an array is appended to the array the key holds
Assigned_Appending(old, new) ==
    IF old = Undefined THEN Defined(new) ELSE Defined(old.value \o new)

\* frontmatter.key = new
Assigned(old, new) == Defined(new)

applyEnhancement(frontmatter, enhancement, st, stat, now) ==
    [sane_tags |->
         IF st.enableTags /\ Len(enhancement.tags) > 0
         THEN Assigned(frontmatter.sane_tags, enhancement.tags)
         ELSE frontmatter.sane_tags,
     sane_keywords |->
         IF st.enableKeywords /\ Len(enhancement.keywords) > 0
         THEN Assigned(frontmatter.sane_keywords, enhancement.keywords)
         ELSE frontmatter.sane_keywords,
     sane_links |->
         IF st.enableLinks /\ Len(enhancement.links) > 0
         THEN Assigned(frontmatter.sane_links, enhancement.links)
         ELSE frontmatter.sane_links,
     sane_summary |->
         IF st.enableSummary /\ enhancement.summary # <<>>
         THEN Defined(enhancement.summary)
         ELSE frontmatter.sane_summary,
     created_at |->
         IF st.enableCreationTimestamp THEN Defined(ToISOString(stat.ctime))
         ELSE frontmatter.created_at,
     modified_at |->
         IF st.enableModificationTimestamp
         THEN Defined(ToISOString(stat.mtime))
         ELSE frontmatter.modified_at,
     sane_updated |-> Defined(ToISOString(now)),
     sane_version |-> Defined(<<"1", ".", "0">>)]

\* the front-matters of a document that was never enhanced, and of one that
\* was, at time 1, with some of the fields written
OldArrays == {Undefined, Defined(<<<<"b">>>>)}
OldSummaries == {Undefined, Defined(<<"b">>)}

FrontMatters ==
    {[sane_tags |-> Undefined, sane_keywords |-> Undefined,
      sane_links |-> Undefined, sane_summary |-> Undefined,
      created_at |-> Undefined, modified_at |-> Undefined,
      sane_updated |-> Undefined, sane_version |-> Undefined]}
    \cup
    [sane_tags : OldArrays, sane_keywords : OldArrays,
     sane_links : {Undefined, Defined(<<<<"[", "[", "b", "]", "]">>>>)},
     sane_summary : OldSummaries,
     created_at : {Defined(ToISOString(0))},
     modified_at : {Defined(ToISOString(1))},
     sane_updated : {Defined(ToISOString(1))},
     sane_version : {Defined(<<"1", ".", "0">>)}]

\* the enhancements the parser returns: each field empty or not
Enhancements ==
    [tags : {<<>>, <<<<A>>>>}, keywords : {<<>>, <<<<A>>, <<"b">>>>},
     links : {<<>>, <<<<"[", "[", A, "]", "]">>>>},
     summary : {<<>>, <<A, " ", "b">>}]

ToggleSettings ==
    {[DefaultSettings EXCEPT !.enableTags = t, !.enableKeywords = k,
                             !.enableLinks = l, !.enableSummary = s,
                             !.enableCreationTimestamp = c,
                             !.enableModificationTimestamp = c] :
        t \in BOOLEAN, k \in BOOLEAN, l \in BOOLEAN, s \in BOOLEAN,
        c \in BOOLEAN}

\* the document was created at 0 and last modified at 1; the clock shows 2
FileStat == [ctime |-> 0, mtime |-> 1]
Now == 2

MergeInit ==
    /\ Constructed
    /\ vault = Paths
    /\ noteEmbeddings = <<>>

ApplyCall(frontmatter, enhancement, st) ==
    /\ call = NoCall
    /\ call' = [fn |-> "applyEnhancement", frontmatter |-> frontmatter,
                enhancement |-> enhancement, settings |-> st,
                result |-> applyEnhancement(frontmatter, enhancement, st,
                                            FileStat, Now)]
    /\ UNCHANGED <<loaded, settings, saves, vault, sane, noteEmbeddings,
                   processingQueue, delayedProcessingTimer, delayedTimers,
                   scheduledProcessingTimer, scheduledTimers, costEntries,
                   today, tasks, notices, events, burst>>

MergeNext ==
    \E frontmatter \in FrontMatters, enhancement \in Enhancements,
       st \in ToggleSettings : ApplyCall(frontmatter, enhancement, st)

MergeSpec == MergeInit /\ [][MergeNext]_vars

\* ----------------------------------------------------------------- claims ----
\* what the cost entries of day d add up to
RECURSIVE SpentUpTo(_, _)
SpentUpTo(i, d) ==
    IF i = 0 THEN 0
    ELSE (IF costEntries[i].day = d THEN costEntries[i].cost ELSE 0)
         + SpentUpTo(i - 1, d)
SpentOn(d) == SpentUpTo(Len(costEntries), d)

Running == {"read", "embed", "uRead", "uEnhance", "uApply"}

\* C1: under trigger=delayed a burst of change events for one path, each
\* arriving before the debounce timer fires, results in exactly one queue
\* flush, and that flush processes the path exactly once.  burst is the
\* window opened by the first change event under delayed with no timer of
\* an earlier trigger setting outstanding; it is dropped when the trigger is
\* changed, the document is deleted or the plugin is unloaded.  While the
\* window is open one timer is armed, the path is queued and no flush has
\* started; the fire starts one flush whose file list holds the path once;
\* afterwards exactly one flush has started and no timer is left.
C1_WindowOpen ==
    (burst.n >= 1 /\ delayedTimers > 0) =>
        /\ delayedTimers = 1
        /\ burst.flushes = 0
        /\ Count(burst.path, processingQueue) = 1

C1_WindowClosed ==
    (burst.n >= 1 /\ delayedTimers = 0) => burst.flushes = 1

C1_Fire ==
    (DelayedTimerFire /\ burst.n >= 1) =>
        /\ processingQueue' = <<>>
        /\ \E s \in Slots :
              /\ tasks[s].kind = "idle"
              /\ tasks'[s].kind = "flush"
              /\ tasks'[s].pc = "loop"
              /\ Count(burst.path, tasks'[s].files) = 1

C2_SingleDebounceTimer == delayedTimers <= 1

C2_Witness ==
    /\ burst.n >= 2
    /\ delayedTimers = 1
    /\ delayedProcessingTimer = "live"

\* C3: under trigger=manual a change event only adds the path to the queue,
\* and no flush is started while the trigger is manual.
C3_ManualNeverFlushes ==
    [][settings.processingTrigger = "manual" =>
          /\ (\E p \in Paths : ModifyEvent(p) \/ CreateEvent(p)) =>
                /\ tasks' = tasks
                /\ delayedTimers' = delayedTimers
                /\ scheduledTimers' = scheduledTimers
          /\ \A s \in Slots :
                tasks'[s].kind = "flush" => tasks[s].kind = "flush"]_vars

\* C4: at most one scheduled timer is outstanding, and a fire of the
\* scheduled timer under trigger=scheduled drains the queue and leaves a new
\* scheduled timer armed.
C4_Fire ==
    (ScheduledTimerFire /\ settings.processingTrigger = "scheduled") =>
        /\ processingQueue' = <<>>
        /\ processingQueue # <<>> =>
              \E s \in Slots : /\ tasks[s].kind = "idle"
                               /\ tasks'[s].kind = "flush"
                               /\ tasks'[s].files = processingQueue
        /\ scheduledTimers' = 1
        /\ scheduledProcessingTimer' = "live"

C4_ScheduledRearms == [](scheduledTimers <= 1) /\ [][C4_Fire]_vars

C4_Witness ==
    /\ settings.processingTrigger = "scheduled"
    /\ scheduledTimers = 1
    /\ delayedProcessingTimer = "undefined"
    /\ saves = 0
    /\ \E s \in Slots : tasks[s].kind = "flush" /\ tasks[s].pc = "embed"

\* C5: once a document has been deleted and not created again, the
\* embedding store holds no entry for its path.
C5_DeletedHasNoEmbedding ==
    \A p \in Paths : p \notin vault => ~MapHas(noteEmbeddings, p)

\* C6: after onunload has started no debounce timer and no scheduled timer
\* is outstanding.
C6_NoTimerAfterUnload ==
    loaded = "unloaded" => delayedTimers = 0 /\ scheduledTimers = 0

\* C7: when processNote is entered without the provider being configured,
\* the not-configured notice is shown, no invocation starts or advances (no
\* read, embed or enhance is issued) and the embedding store, the cost log
\* and the documents' front-matter stay as they are.
ProcessNoteEntered ==
    \/ /\ settings.processingTrigger = "immediate"
       /\ \E p \in Paths : ModifyEvent(p) \/ CreateEvent(p)
    \/ \E p \in Paths : ProcessCurrentNote(p)
    \/ \E s \in Slots : FlushNext(s) /\ Head(tasks[s].files) \in vault
    \/ InitializeAllNotes /\ vault # {}
    \/ \E s \in Slots : InitNext(s) /\ tasks[s].i + 1 < Len(tasks[s].files)

C7_NotConfiguredAborts ==
    [][(settings.openaiApiKey = "" /\ ProcessNoteEntered) =>
          /\ "not configured" \in notices'
          /\ \A s \in Slots : tasks'[s].pc \in Running => tasks'[s] = tasks[s]
          /\ noteEmbeddings' = noteEmbeddings
          /\ costEntries' = costEntries
          /\ sane' = sane]_vars

C7_Witness ==
    /\ settings.openaiApiKey = ""
    /\ "not configured" \in notices
    /\ \E s \in Slots : tasks[s].kind = "flush" /\ tasks[s].pc = "loop"

\* C8: with cost tracking enabled canAfford is false when the entries of
\* the current day sum to the daily budget or more, and only the entries of
\* the current day count: it is true when they sum to less, in particular
\* after a day rollover with no new entry.
C8_BudgetGate ==
    settings.costTracking =>
        (canAffordProcessing(costEntries, today, settings)
            <=> SpentOn(today) < settings.dailyBudget)

C8_Witness ==
    /\ settings.costTracking
    /\ today >= 1
    /\ SpentOn(today - 1) = settings.dailyBudget
    /\ SpentOn(today) = 0
    /\ canAffordProcessing(costEntries, today, settings)

\* C9: with tracking enabled every enhance call is preceded by a passed
\* budget check; when the check is denied no enhance call is issued, the
\* invocation leaves its neighbour loop with the budget notice, and the
\* embedding store, the front-matter already written and the cost log stay
\* as they are.
C9_Step(s) ==
    /\ (/\ tasks[s].pc = "uRead"
        /\ tasks'[s] # tasks[s]
        /\ tasks[s].target \in vault
        /\ settings.costTracking
        /\ SpentOn(today) >= settings.dailyBudget) =>
            /\ tasks'[s].pc \notin Running
            /\ "budget" \in notices'
            /\ noteEmbeddings' = noteEmbeddings
            /\ sane' = sane
            /\ costEntries' = costEntries
    /\ (/\ tasks'[s].pc = "uEnhance"
        /\ tasks[s].pc # "uEnhance"
        /\ settings.costTracking) => SpentOn(today) < settings.dailyBudget

C9_BudgetCheckBeforeEnhance == [][\A s \in Slots : C9_Step(s)]_vars

C9_Witness ==
    /\ "budget" \in notices
    /\ settings.costTracking
    /\ \E p, q \in Paths : /\ p # q
                           /\ sane[p]
                           /\ ~sane[q]
                           /\ MapHas(noteEmbeddings, q)
                           /\ SpentOn(today) >= settings.dailyBudget

\* C10: a failure while handling one neighbour, other than budget-exceeded,
\* does not abort the remaining ranked neighbours: the invocation goes on
\* with the next neighbour.
C10_NeighbourFailureContinues ==
    [][\A s \in Slots :
          (/\ tasks[s].pc \in {"uRead", "uApply"}
           /\ tasks'[s] # tasks[s]
           /\ ~tasks[s].self
           /\ tasks[s].target \notin vault
           /\ tasks[s].relevant # <<>>) =>
              /\ tasks'[s].pc = "uRead"
              /\ tasks'[s].target = Head(tasks[s].relevant)]_vars

\* C11: when the enhance call fails for a neighbour (the step that ends the
\* call shows the error notice), processing of that neighbour aborts: no
\* cost entry is recorded for it and the invocation does not go on to write
\* its front-matter.
C11_EnhanceFailureAbortsNeighbour ==
    [][\A s \in Slots :
          (/\ tasks[s].pc = "uEnhance"
           /\ tasks'[s] # tasks[s]
           /\ "error" \in notices') =>
              /\ costEntries' = costEntries
              /\ tasks'[s].pc # "uApply"]_vars

\* C12: initialize-all stops early on budget: once a budget-exceeded error
\* has been thrown inside the batch, the batch issues no further embed and
\* no further enhance call.
C12_InitializeAllStopsOnBudget ==
    \A s \in Slots :
        (tasks[s].kind = "init" /\ tasks[s].signalled) =>
            tasks[s].pc \notin {"embed", "uEnhance"}

\* C13: the ranking result never contains the query path, has at most k
\* entries, and its entries are ordered by non-increasing similarity.
C13_RankingShape ==
    call.fn = "findRelevantNotes" =>
        LET r == call.result
        IN  /\ \A i \in 1..Len(r) : r[i].file # call.excludePath
            /\ Len(r) <= call.count
            /\ \A i, j \in 1..Len(r) :
                  i < j => ~FLess(r[i].similarity, r[j].similarity)

\* a result of two entries of different similarity whose order in the store
\* is the other way round
C13_Witness ==
    /\ call.fn = "findRelevantNotes"
    /\ Len(call.result) = 2
    /\ FLess(call.result[2].similarity, call.result[1].similarity)
    /\ \E i, j \in 1..Len(noteEmbeddings) :
          /\ i < j
          /\ noteEmbeddings[i].path = call.result[2].file
          /\ noteEmbeddings[j].path = call.result[1].file

\* C14: for a query that has an embedding, the ranking returns the top-K
\* most similar other documents: the entries are distinct existing
\* documents other than the query, each with its similarity to the query;
\* every such document left out is no more similar than any returned one;
\* as many are returned as exist, up to k; and the store {A:[1,0], B:[0,1],
\* C:[1,0]} with query A and k = 2 gives [C, B].
Candidates ==
    {x \in Range(noteEmbeddings) :
        x.path # call.excludePath /\ x.path \in vault}

ExampleStore ==
    <<[path |-> "A", embedding |-> <<1, 0>>],
      [path |-> "B", embedding |-> <<0, 1>>],
      [path |-> "C", embedding |-> <<1, 0>>]>>

C14_RankingTopK ==
    (call.fn = "findRelevantNotes" /\ MapHas(noteEmbeddings, call.excludePath))
    =>  LET r == call.result
            query == MapGet(noteEmbeddings, call.excludePath)
            returned == {r[i].file : i \in 1..Len(r)}
        IN  /\ returned \subseteq {x.path : x \in Candidates}
            /\ Cardinality(returned) = Len(r)
            /\ Len(r) = Min(call.count, Cardinality(Candidates))
            /\ \A i \in 1..Len(r) :
                  r[i].similarity =
                      cosineSimilarity(query,
                                       MapGet(noteEmbeddings, r[i].file))
            /\ \A x \in Candidates : \A i \in 1..Len(r) :
                  x.path \notin returned =>
                      ~FLess(r[i].similarity,
                             cosineSimilarity(query, x.embedding))
            /\ (/\ noteEmbeddings = ExampleStore
                /\ vault = Paths
                /\ call.excludePath = "A"
                /\ call.count = 2) =>
                   /\ [i \in 1..Len(r) |-> r[i].file] = <<"C", "B">>
                   /\ r[1].similarity = FromInt(1)
                   /\ r[2].similarity = FloatZero

\* a document is left out although it exists, and it is less similar than
\* the one returned
C14_Witness ==
    /\ call.fn = "findRelevantNotes"
    /\ MapHas(noteEmbeddings, call.excludePath)
    /\ call.count = 1
    /\ Len(call.result) = 1
    /\ \E x \in Candidates :
          /\ x.path # call.result[1].file
          /\ FLess(cosineSimilarity(MapGet(noteEmbeddings, call.excludePath),
                                    x.embedding),
                   call.result[1].similarity)
          /\ \E i, j \in 1..Len(noteEmbeddings) :
                /\ i < j
                /\ noteEmbeddings[i].path = x.path
                /\ noteEmbeddings[j].path = call.result[1].file

\* C15: cosine similarity returns exactly 0 whenever the two vectors have
\* different lengths or either vector has zero magnitude (every component
\* 0, the empty vector included).
ZeroMagnitude(v) == \A i \in 1..Len(v) : v[i] = 0

C15_SimilarityDegenerate ==
    (/\ call.fn = "cosineSimilarity"
     /\ \/ Len(call.a) # Len(call.b)
        \/ ZeroMagnitude(call.a)
        \/ ZeroMagnitude(call.b)) => call.result = FloatZero

\* vectors of different lengths, neither of zero magnitude
C15_Witness ==
    /\ call.fn = "cosineSimilarity"
    /\ Len(call.a) # Len(call.b)
    /\ ~ZeroMagnitude(call.a)
    /\ ~ZeroMagnitude(call.b)
    /\ call.result = FloatZero

\* C16: cosine similarity is symmetric, sim(a,b) = sim(b,a), and
\* sim(a,a) = 1 for every non-zero vector a.
C16_SimilaritySymmetricUnit ==
    call.fn = "cosineSimilarity" =>
        /\ call.result = cosineSimilarity(call.b, call.a)
        /\ (call.a = call.b /\ ~ZeroMagnitude(call.a)) =>
              call.result = FromInt(1)

\* C17: response parsing is total.  For any raw model output (empty,
\* malformed, non-JSON, JSON that is no object, such as null or a number)
\* parseAIResponse returns an Enhancement whose tags, keywords and links are
\* arrays of strings and whose summary is a string; it never raises.
Symbols ==
    {Quote, Apostrophe, Newline, " ", ",", ":", "[", "]", "{", "}", A, "b",
     "7", "tags", "keywords", "links", "summary", "json", "null", "fence"}

IsEnhancement(r) ==
    /\ DOMAIN r = {"tags", "keywords", "links", "summary"}
    /\ r.tags \in Seq(Seq(Symbols))
    /\ r.keywords \in Seq(Seq(Symbols))
    /\ r.links \in Seq(Seq(Symbols))
    /\ r.summary \in Seq(Symbols)

C17_ParsingTotal ==
    call.fn = "parseAIResponse" => IsEnhancement(call.result)

\* JSON.parse returns null, and reading its links property raises
C17_Witness ==
    /\ call.fn = "parseAIResponse"
    /\ call.response = <<"null">>
    /\ call.result = EmptyEnhancement

\* C18: fallback extraction.  Whenever the strict JSON parse of the raw
\* output fails and the raw text holds a "tags": [ ... ] array body, the
\* returned tags are exactly the comma-separated elements of that body, the
\* white space around each element and its quotes stripped, the empty
\* elements removed; a field the text does not hold stays empty.
StrictParseFails(response) == ~JsonParse(CleanResponse(response)).ok

\* the element as the claim strips it: the white space around the element
\* as written, then its quote characters
Stripped(element) == StripQuotes(Trim(element))

ExpectedElements(elements) ==
    SelectSeq([i \in 1..Len(elements) |-> Stripped(elements[i])],
              LAMBDA e : e # <<>>)

C18_FallbackExtraction ==
    (/\ call.fn = "parseAIResponse"
     /\ call.written.shape \in Shapes
     /\ StrictParseFails(call.response)) =>
        /\ call.written.tags.present =>
               call.result.tags = ExpectedElements(call.written.tags.elements)
        /\ ~call.written.tags.present => call.result.tags = <<>>
        /\ ~call.written.keywords.present => call.result.keywords = <<>>
        /\ ~call.written.links.present => call.result.links = <<>>
        /\ ~call.written.summary.present => call.result.summary = <<>>

\* an object cut off before its closing brace that holds "tags": ["a", "b"]
\* and no other field
C18_Witness ==
    /\ call.fn = "parseAIResponse"
    /\ call.written.shape = "truncated"
    /\ StrictParseFails(call.response)
    /\ call.written.tags.elements =
           <<<<Quote, A, Quote>>, <<" ", Quote, "b", Quote>>>>
    /\ ~call.written.keywords.present
    /\ ~call.written.links.present
    /\ ~call.written.summary.present
    /\ call.result = [tags |-> <<<<A>>, <<"b">>>>, keywords |-> <<>>,
                      links |-> <<>>, summary |-> <<>>]

\* C19: every link of an Enhancement the parser returns, on the strict path
\* or on the fallback path, is in bracket-reference form, starting with [[
\* and ending with ]]; a link already in that form is returned unchanged.
InBracketForm(link) ==
    StartsWith(link, <<"[", "[">>) /\ EndsWith(link, <<"]", "]">>)

C19_LinksBracketForm ==
    call.fn = "parseAIResponse" =>
        /\ \A i \in 1..Len(call.result.links) :
               InBracketForm(call.result.links[i])
        /\ \A i \in 1..Len(call.written.links.elements) :
               LET link == Stripped(call.written.links.elements[i])
               IN  InBracketForm(link) =>
                       \E j \in 1..Len(call.result.links) :
                           call.result.links[j] = link

\* C20: round trip.  Saving the embedding store and then loading the saved
\* blob reproduces an equivalent map: the same set of paths and, for each
\* path, the same vector, the same clean text and the same timestamp.
PathsOf(map) == {map[i].path : i \in 1..Len(map)}
EntryAt(map, p) == map[CHOOSE i \in 1..Len(map) : map[i].path = p]

C20_StoreRoundTrip ==
    call.fn = "loadEmbeddings" =>
        /\ PathsOf(noteEmbeddings) = PathsOf(call.saved)
        /\ \A p \in PathsOf(call.saved) :
               /\ EntryAt(noteEmbeddings, p).embedding
                      = EntryAt(call.saved, p).embedding
               /\ EntryAt(noteEmbeddings, p).content
                      = EntryAt(call.saved, p).content
               /\ EntryAt(noteEmbeddings, p).lastUpdated
                      = EntryAt(call.saved, p).lastUpdated

\* two entries, one with a negative fraction in its vector and a text that
\* needs escaping, read back from the blob
C20_Witness ==
    /\ call.fn = "loadEmbeddings"
    /\ Len(call.saved) = 2
    /\ call.saved[1].embedding = <<Num(1, 2), Num(0 - 3, 4)>>
    /\ call.saved[1].content = <<A, " ", Quote, "n", Newline, Backslash>>
    /\ call.saved[2].lastUpdated = Num(120, 1)
    /\ Len(noteEmbeddings) = 2
    /\ noteEmbeddings[1].embedding = <<Num(1, 2), Num(0 - 3, 4)>>

\* C21: upsert is idempotent.  Storing the same path with the same vector a
\* second time leaves the size of the store as it was after the first time,
\* and leaves the ranking of every query path identical: the same
\* neighbours with the same similarities in the same order.
C21_UpsertIdempotent ==
    (call.fn = "noteEmbeddings.set" /\ call.repeated) =>
        /\ Len(noteEmbeddings) = Len(call.before)
        /\ \A q \in Paths :
               findRelevantNotes(noteEmbeddings, vault, q, MaxK)
                   = findRelevantNotes(call.before, vault, q, MaxK)

\* the second set of a path that was new to a store of two entries; the
\* ranking of that path has two neighbours of different similarity
C21_Witness ==
    /\ call.fn = "noteEmbeddings.set"
    /\ call.repeated
    /\ Len(noteEmbeddings) = 3
    /\ noteEmbeddings[3].path = call.path
    /\ LET r == findRelevantNotes(noteEmbeddings, vault, call.path, MaxK)
       IN  Len(r) = 2 /\ FLess(r[2].similarity, r[1].similarity)

\* C22: the front-matter merge replaces whole fields.  When an enabled
\* enhancement field is written, the document's sane_tags, sane_keywords,
\* sane_links or sane_summary becomes exactly the new value, never the old
\* value with the new items appended; a field whose toggle is disabled or
\* whose new value is empty is left exactly as it was.
Replaced(old, new, enabled, result) ==
    IF enabled /\ new # <<>> THEN result = Defined(new) ELSE result = old

C22_MergeReplacesFields ==
    call.fn = "applyEnhancement" =>
        /\ Replaced(call.frontmatter.sane_tags, call.enhancement.tags,
                    call.settings.enableTags, call.result.sane_tags)
        /\ Replaced(call.frontmatter.sane_keywords, call.enhancement.keywords,
                    call.settings.enableKeywords, call.result.sane_keywords)
        /\ Replaced(call.frontmatter.sane_links, call.enhancement.links,
                    call.settings.enableLinks, call.result.sane_links)
        /\ Replaced(call.frontmatter.sane_summary, call.enhancement.summary,
                    call.settings.enableSummary, call.result.sane_summary)

\* tags written over old tags, keywords disabled and kept, an empty summary
\* leaving the old one
C22_Witness ==
    /\ call.fn = "applyEnhancement"
    /\ call.frontmatter.sane_tags = Defined(<<<<"b">>>>)
    /\ call.settings.enableTags
    /\ call.result.sane_tags = Defined(<<<<A>>>>)
    /\ ~call.settings.enableKeywords
    /\ call.enhancement.keywords # <<>>
    /\ call.result.sane_keywords = Defined(<<<<"b">>>>)
    /\ call.settings.enableSummary
    /\ call.enhancement.summary = <<>>
    /\ call.result.sane_summary = Defined(<<"b">>)

\* C23: with a non-empty target folder, the pipeline never embeds, enhances
\* or writes front-matter to a document outside that folder: the document an
\* invocation is embedding, and the document it is enhancing or writing to,
\* lie in the folder the settings name.
InTargetFolder(p) == IsPrefix(settings.targetFolder, Location[p])

C23_OnlyTargetFolder ==
    settings.targetFolder # <<>> =>
        \A s \in Slots :
            /\ tasks[s].pc = "embed" => InTargetFolder(tasks[s].file)
            /\ tasks[s].pc \in {"uEnhance", "uApply"} =>
                   InTargetFolder(tasks[s].target)

\* C24: when generateEmbedding returns the empty vector, processNote skips
\* the document silently: the embedding store is left as it was, the
\* invocation enters no update of a neighbour or of the document, and the
\* step shows no notice to the user.
C24_SilentSkip ==
    [][\A s \in Slots, threw \in BOOLEAN :
          EmbedDone(s, <<>>, threw) =>
              /\ noteEmbeddings' = noteEmbeddings
              /\ tasks'[s].pc \notin {"uRead", "uEnhance", "uApply"}
              /\ notices' = {}]_vars

\* C25: the single debounce timer keeps queue flushes apart: no flush
\* starts while an earlier flush is still processing the paths it drained,
\* so at most one flush is in flight and no path is being processed by two
\* flushes at the same time.
C25_NoOverlappingFlushes ==
    \A s, r \in Slots :
        (s # r /\ tasks[s].kind = "flush") => tasks[r].kind # "flush"

\* C26: under the immediate trigger a change event processes the document at
\* once and does not leave its path pending: when the invocation that a
\* change event started has finished, with the trigger still immediate, the
\* path of its document is not in the processing queue.
C26_ImmediateNotQueued ==
    [][\A s \in Slots :
          (/\ tasks[s].kind = "change"
           /\ tasks'[s].kind = "idle"
           /\ settings'.processingTrigger = "immediate")
          => tasks[s].file \notin Range(processingQueue')]_vars

\* C27: a flush drains the queue atomically.  The step that starts a flush
\* takes every queued path, each once, and leaves the queue empty, with no
\* document processed yet; a timer that fires on an empty queue starts
\* nothing.  The flush then takes its paths one at a time: a path whose
\* document exists gets its one processNote call, a path whose document is
\* gone gets none, and between two paths the list of the paths still to do
\* is not touched.  No step of a running flush changes the queue, so a path
\* queued meanwhile stays there for the next flush.
FlushStarts(s) == tasks[s].kind = "idle" /\ tasks'[s].kind = "flush"

FlushTakesPath(s) ==
    tasks[s].kind = "flush" /\ tasks[s].pc = "loop" /\ tasks'[s] # tasks[s]

FlushStep(s) == tasks[s].kind = "flush" /\ tasks'[s] # tasks[s]

C27_FlushDrainsAtomically ==
    [][/\ \A s \in Slots :
             /\ FlushStarts(s) =>
                    /\ processingQueue # <<>>
                    /\ tasks'[s].files = processingQueue
                    /\ Cardinality(Range(processingQueue))
                           = Len(processingQueue)
                    /\ processingQueue' = <<>>
                    /\ tasks'[s].pc = "loop"
             /\ FlushTakesPath(s) =>
                    LET file == Head(tasks[s].files)
                    IN  /\ tasks'[s].kind = "flush" =>
                               tasks'[s].files = Tail(tasks[s].files)
                        /\ (file \in vault /\ isConfigured(settings)) =>
                               /\ tasks'[s].pc = "read"
                               /\ tasks'[s].file = file
                        /\ (file \in vault /\ ~isConfigured(settings)) =>
                               /\ tasks'[s].pc # "read"
                               /\ "not configured" \in notices'
                        /\ file \notin vault =>
                               /\ tasks'[s].pc # "read"
                               /\ "not configured" \notin notices'
             /\ (FlushStep(s) /\ tasks[s].pc # "loop"
                    /\ tasks'[s].kind = "flush") =>
                    tasks'[s].files = tasks[s].files
             /\ FlushStep(s) => processingQueue' = processingQueue
       /\ ((DelayedTimerFire \/ ScheduledTimerFire)
              /\ processingQueue = <<>>) =>
              UNCHANGED <<tasks, processingQueue, noteEmbeddings, sane>>]_vars

\* a flush is inside processNote for one of its paths while a path changed
\* meanwhile waits in the queue
C27_Witness ==
    \E s \in Slots :
        /\ tasks[s].kind = "flush"
        /\ tasks[s].pc = "embed"
        /\ processingQueue # <<>>

\* C28: the configuration is a snapshot per invocation: a settings change
\* made while an invocation of processNote is suspended on an awaited call
\* does not affect its remaining steps.  For an invocation suspended before
\* the budget check of updateNoteWithAI the check comes out as it would have
\* without the change, and for one suspended on the enhancement request the
\* cost is recorded or not as it would have been without the change.
C28_SettingsSnapshot ==
    [][\A s \in Slots :
          (settings' # settings /\ tasks'[s] = tasks[s]) =>
              /\ tasks[s].pc = "uRead" =>
                     BudgetDenied(costEntries, today, settings')
                         = BudgetDenied(costEntries, today, settings)
              /\ tasks[s].pc = "uEnhance" =>
                     settings'.costTracking = settings.costTracking]_vars

\* C29: an all-empty Enhancement is a no-op.  Applying an Enhancement with
\* empty tags, keywords, links and summary leaves the front-matter of the
\* target document as it was, so that nothing is written to the document.
C29_EmptyEnhancementNoOp ==
    (call.fn = "applyEnhancement" /\ call.enhancement = EmptyEnhancement) =>
        call.result = call.frontmatter

\* C30: the initialization heuristic.  When the neighbour loop of an
\* invocation whose embedding was stored completes (at once when the ranking
\* is empty, otherwise when the update of the last neighbour has been
\* written), the document itself is enhanced next if and only if the store
\* holds fewer than InitializationThreshold embeddings, and then with the
\* paths of the ranked neighbours as related context; every other update of
\* the invocation is that of a ranked neighbour, with the content of the
\* document as related context.
LoopCompletes(s) ==
    \/ /\ tasks[s].pc = "uApply"
       /\ ~tasks[s].self
       /\ tasks[s].relevant = <<>>
       /\ tasks[s].target \in vault
       /\ tasks'[s] # tasks[s]
    \/ \E e \in EmbedResults :
          /\ e # <<>>
          /\ EmbedDone(s, e, FALSE)
          /\ tasks'[s].ranked = <<>>

UpdateStarts(s) == tasks'[s].pc = "uRead" /\ tasks[s].pc # "uRead"

C30_InitializationHeuristic ==
    [][\A s \in Slots :
          /\ LoopCompletes(s) =>
                 (tasks'[s].self
                      <=> Len(noteEmbeddings') < InitializationThreshold)
          /\ (UpdateStarts(s) /\ tasks'[s].self) =>
                 /\ LoopCompletes(s)
                 /\ tasks'[s].target = tasks'[s].file
                 /\ tasks'[s].related =
                        [n \in 1..Len(tasks'[s].ranked) |->
                            [path |-> tasks'[s].ranked[n]]]
          /\ (UpdateStarts(s) /\ ~tasks'[s].self) =>
                 /\ tasks'[s].target \in Range(tasks'[s].ranked)
                 /\ tasks'[s].target # tasks'[s].file
                 /\ tasks'[s].related = <<[content |-> tasks'[s].file]>>]_vars

\* the store holds exactly InitializationThreshold embeddings and the
\* neighbours of an invocation have been enhanced
C30_Witness ==
    \E s \in Slots :
        /\ Len(noteEmbeddings) = InitializationThreshold
        /\ tasks[s].ranked # <<>>
        /\ tasks[s].pc = "uApply"
        /\ tasks[s].relevant = <<>>
        /\ ~tasks[s].self

\* C31: the parser stages run in order and the first success wins.  The
\* regex fallback is used only when the strict parse of the extracted text
\* fails: whenever that parse succeeds, the Enhancement returned is the one
\* built from the validated fields of the parsed value, the arrays of
\* non-empty strings under tags, keywords and links and the trimmed string
\* under summary, and nothing else.
FromParsedFields(value) ==
    [tags |-> Strings(Property(value, "tags")),
     keywords |-> Strings(Property(value, "keywords")),
     links |-> FormatLinks(Strings(Property(value, "links"))),
     summary |-> IF Property(value, "summary").type = "string"
                 THEN Trim(Property(value, "summary").chars)
                 ELSE <<>>]

C31_FirstSuccessWins ==
    (call.fn = "parseAIResponse" /\ ~StrictParseFails(call.response)) =>
        call.result =
            FromParsedFields(JsonParse(CleanResponse(call.response)).value)

\* C32: the cost log is append-only with a rolling window.  A record call
\* appends exactly one entry, the one of the call, at the end of the log;
\* the entries before it are entries of the log as it was, unchanged and in
\* their order; no entry older than RetentionDays remains, and every entry
\* of the log that is no older than RetentionDays is kept.
Fresh(e) == today - e.day <= RetentionDays

Front(l) == SubSeq(l, 1, Len(l) - 1)

C32_CostLogWindow ==
    call.fn = "recordCost" =>
        LET kept == Front(costEntries)
            fresh == {i \in 1..Len(call.before) : Fresh(call.before[i])}
        IN  /\ costEntries # <<>>
            /\ costEntries[Len(costEntries)] =
                   [day |-> today, operation |-> "enhancement",
                    cost |-> call.cost, provider |-> settings.aiProvider]
            /\ Len(kept) = Cardinality(fresh)
            /\ \A n \in 1..Len(kept) :
                   \E i \in fresh :
                       /\ kept[n] = call.before[i]
                       /\ Cardinality({j \in fresh : j < i}) = n - 1
            /\ \A n \in 1..Len(costEntries) : Fresh(costEntries[n])

\* a log with an entry older than the window, one of exactly the retention
\* age and a later one: the first is dropped, the other two are kept
C32_Witness ==
    /\ call.fn = "recordCost"
    /\ Len(call.before) = 3
    /\ ~Fresh(call.before[1])
    /\ today - call.before[2].day = RetentionDays
    /\ Len(costEntries) = 3
    /\ costEntries[1] = call.before[2]
    /\ costEntries[2] = call.before[3]

\* C33: whenever scheduleProcessing arms the scheduled timer, the timer
\* fires at scheduleHour o'clock, today when that instant is strictly in the
\* future and tomorrow otherwise, so the delay is greater than 0 and at most
\* a day; exactly one scheduled timer is then outstanding.  When the trigger
\* is not scheduled, the call leaves no scheduled timer outstanding.
DayTicks == HoursPerDay * TicksPerHour

Quiescent ==
    /\ \A s \in Slots : tasks[s].kind = "idle"
    /\ delayedTimers = 0

C34_Quiescence == <>[]Quiescent

\* C35: with cost tracking on, the costs recorded on one calendar day never
\* exceed the daily budget by more than the cost of a single enhancement,
\* here the largest one recorded that day, however the invocations in
\* flight interleave.
LargestOn(d) ==
    LET costs == {costEntries[i].cost :
                     i \in {j \in 1..Len(costEntries) :
                               costEntries[j].day = d}}
    IN  IF costs = {} THEN 0
        ELSE CHOOSE c \in costs : \A x \in costs : x <= c

C35_BudgetOvershoot ==
    settings.costTracking =>
        \A d \in 0..MaxDay :
            SpentOn(d) <= settings.dailyBudget + LargestOn(d)

\* C36: when processNote invocations for one path interleave, then after all
\* of them have completed the embedding stored for the path is the one
\* computed from the latest content of the document.
StoredEmbedding(p) ==
    noteEmbeddings[CHOOSE i \in 1..Len(noteEmbeddings) :
                      noteEmbeddings[i].path = p].embedding

C36_LatestContentStored ==
    (/\ events >= 2
     /\ \A s \in Slots : tasks[s].pc \notin Running
     /\ MapHas(noteEmbeddings, Edited)) =>
        StoredEmbedding(Edited) = EmbeddingOf(ContentOf(Edited))

\* C37: under trigger=delayed, left unchanged, with the document kept and the
\* plugin loaded, every change event on a document is eventually followed by
\* a processNote call for its path, provided the debounce timer fires: a
\* path in the queue leads to a flush calling processNote for it.
FlushCalls(p) ==
    \E s \in Slots : /\ tasks[s].kind = "flush"
                     /\ tasks[s].pc = "read"
                     /\ tasks[s].file = p

C37_QueuedPathProcessed ==
    \A p \in Paths : (p \in Range(processingQueue)) ~> FlushCalls(p)

C37_Witness ==
    /\ FlushCalls("B")
    /\ "B" \notin Range(processingQueue)
    /\ \E s \in Slots : tasks[s].file = "B" /\ tasks[s].files # <<>>

\* C38: a document that no longer exists is not taken up: a flush skips a
\* drained path whose document was deleted before its turn, and the ranking
\* returns no neighbour whose document is absent from the vault, also when
\* the store still holds its embedding; so the neighbour processNote takes
\* up first exists.
Deleted(p) == p \notin vault

StaleEntries == {p \in PathsOf(noteEmbeddings) : Deleted(p)}

FlushSkipsAbsent ==
    \A s \in Slots :
        (FlushNext(s) /\ Deleted(Head(tasks[s].files))) =>
            /\ tasks'[s].pc # "read"
            /\ tasks'[s].file = NoPath
            /\ tasks'[s].files = Tail(tasks[s].files)
            /\ noteEmbeddings' = noteEmbeddings

RankingSkipsAbsent ==
    \A s \in Slots :
        (tasks[s].pc = "embed" /\ tasks'[s].pc = "uRead") =>
            /\ \A p \in Range(tasks'[s].ranked) : ~Deleted(p)
            /\ ~tasks'[s].self => ~Deleted(tasks'[s].target)

C38_AbsentDocumentSkipped ==
    [][FlushSkipsAbsent /\ RankingSkipsAbsent]_vars

C38_Witness ==
    \E s \in Slots :
        /\ tasks[s].pc = "uRead"
        /\ tasks[s].kind = "flush"
        /\ StaleEntries \ {tasks[s].file} # {}
        /\ Len(noteEmbeddings) >= 2
====
